---- MODULE Spec2Model ----
(***************************************************************************)
(* A model of the loom execution core: the priority bands, the global and  *)
(* directive interceptor managers, the chain builder and the chain         *)
(* execution engine (loom-core/src/interceptor).                           *)
(***************************************************************************)
EXTENDS Integers, Sequences, FiniteSets, TLC

VARIABLES
    interceptors,    \* GlobalInterceptorManager.interceptors, in HashMap iteration order
    configs,         \* GlobalInterceptorManager.configs: name -> GlobalInterceptorConfig
    user_overrides,  \* GlobalInterceptorManager.user_overrides: name -> bool
    d_interceptors,  \* DirectiveInterceptorManager.interceptors: name -> interceptor
    chain_cache,     \* InterceptorEngine.chain_cache: <<def_name, arg count>> -> chain
    last,            \* what the last call of the API was given and what it returned
    nexec,           \* number of execute() calls made so far
    handlers,        \* HookRegistry.handlers: hook type -> handlers, in list order
    registered       \* history: names of the global interceptors, in the order
                     \* of their first successful register

vars == <<interceptors, configs, user_overrides, d_interceptors, chain_cache,
          last, nexec, handlers, registered>>

(***************************************************************************)
(* Bounds of the model.                                                    *)
(***************************************************************************)
MaxChain == 2      \* non-terminal interceptors of a chain drawn as an input
MaxChildren == 3   \* children of a sequential executor drawn as an input
MaxExec == 2       \* execute() calls in one behaviour
MaxArgs == 3       \* positional arguments of a call statement drawn as an input
MaxHandlers == 3   \* hook handlers registered in one behaviour

(***************************************************************************)
(* Small helpers.                                                          *)
(***************************************************************************)
SeqsUpTo(S, n) == UNION {[1..k -> S] : k \in 0..n}

Put(f, k, v) == [x \in (DOMAIN f) \cup {k} |-> IF x = k THEN v ELSE f[x]]

EmptyMap == [x \in {} |-> TRUE]

(***************************************************************************)
(* interceptor/priority.rs: the reserved bands, half-open ranges lo..hi.   *)
(***************************************************************************)
CRITICAL_SYSTEM == [lo |-> 9000, hi |-> 10000]
GLOBAL_HIGH == [lo |-> 8000, hi |-> 9000]
DIRECTIVE_HIGH == [lo |-> 7000, hi |-> 8000]
GLOBAL_NORMAL == [lo |-> 5000, hi |-> 7000]
DIRECTIVE_NORMAL == [lo |-> 3000, hi |-> 5000]
GLOBAL_SUPPORT == [lo |-> 1000, hi |-> 3000]
DIRECTIVE_SUPPORT == [lo |-> 500, hi |-> 1000]
MONITORING == [lo |-> 0, hi |-> 500]

\* a range closed at both ends
RangeContainsClosed(range, p) == range.lo <= p /\ p <= range.hi

\* Range<i32>::contains
RangeContains(range, p) == range.lo <= p /\ p < range.hi

\* the priority of an executor in ActiveInterceptor::priority
I32_MAX == 2147483647

(***************************************************************************)
(* Results: Ok and Err are the two values of InterceptorResult; Panic is   *)
(* a panic unwinding through the caller, Hang a flow that never returns.   *)
(***************************************************************************)
\* exit_code is the Option of ExecutionResult, a sequence of no code or of
\* one; system_error says whether the metadata has the key system_error
ExecutionResult(src, command) ==
    [src |-> src, msg |-> "", command |-> command, kind |-> "",
     exit_code |-> <<0>>, system_error |-> FALSE]

\* LoomError::execution(msg): every error the engine makes is of this kind.
\* stack is the interceptor_stack an InterceptorError carries: every
\* constructor of error.rs leaves it empty and nothing pushes onto it
LoomError(src, msg) ==
    [src |-> src, msg |-> msg, command |-> <<>>, kind |-> "ExecutionError",
     stack |-> <<>>]

Ok(v) == [tag |-> "Ok", val |-> v]

Err(v) == [tag |-> "Err", val |-> v]

Panic(src, msg) == [tag |-> "Panic", val |-> LoomError(src, msg)]

Hang(src, msg) == [tag |-> "Hang", val |-> LoomError(src, msg)]

Aborts(r) == r.tag \in {"Panic", "Hang"}

NoResult == [tag |-> "None", val |-> LoomError(<<>>, "")]

(***************************************************************************)
(* Values and expressions (types.rs, ast.rs).  A LoomValue is a literal of *)
(* some type, Empty, or an unevaluated Expression.                         *)
(***************************************************************************)
Literal(ty, v) == [t |-> "Literal", ty |-> ty, v |-> v]

Empty == [t |-> "Empty", ty |-> "", v |-> ""]

LitExpr(ty, v) == [e |-> "Literal", ty |-> ty, v |-> v]

VarExpr(name) == [e |-> "Variable", ty |-> "", v |-> name]

NoExpr == [e |-> "None", ty |-> "", v |-> ""]

\* Expression::evaluate on a literal or a variable reference
Evaluate(expr, variables) ==
    IF expr.e = "Literal" THEN Ok(Literal(expr.ty, expr.v))
    ELSE IF expr.v \in DOMAIN variables THEN Ok(variables[expr.v])
    ELSE Err(LoomError(<<>>, "Variable not found"))

\* LoomValue::try_into::<bool | i64 | f64 | String>
TryInto(ty, r) ==
    IF r.tag # "Ok" THEN r
    ELSE IF r.val.t = "Literal" /\ r.val.ty = ty THEN r
    ELSE Err(LoomError(<<>>, "Cannot convert"))

\* LoomValue::stringify: the text of a literal, "" for Empty
Stringify(r) ==
    IF r.tag # "Ok" THEN r
    ELSE IF r.val.t = "Literal" THEN Ok(Literal("string", r.val.v))
    ELSE Ok(Literal("string", ""))

(***************************************************************************)
(* The registry (LoomContext): definitions by name, enums by name and the  *)
(* variables of the module.  A sample registry stands for the parser's     *)
(* output.                                                                 *)
(***************************************************************************)
ParameterDefinition(name, param_type, default_value) ==
    [name |-> name, param_type |-> param_type, default_value |-> default_value]

DirectiveCall(name, args) == [name |-> name, args |-> args]

CommandStmt(parts, directives) ==
    [t |-> "Command", name |-> "", parts |-> parts, args |-> <<>>,
     directives |-> directives]

CallStmt(name, args) ==
    [t |-> "Call", name |-> name, parts |-> <<>>, args |-> args, directives |-> <<>>]

Block(statements, directives) == [statements |-> statements, directives |-> directives]

Definition(kind, name, parameters, directives, body) ==
    [kind |-> kind, name |-> name, parameters |-> parameters,
     directives |-> directives, body |-> body]

InputArg(name, value) == [name |-> name, value |-> value]

\* the enums the registry knows (find_enum): name -> variant keys
Enums == [Stage |-> {"dev", "prod"}]

\* the module variables handed to every run (get_variables)
ModuleVariables == [greeting |-> Literal("string", "hello"), unset |-> Empty]

Definitions ==
    [ hello |-> Definition("Recipe", "hello", <<>>, <<>>,
          << Block(<< CommandStmt(<<LitExpr("string", "echo "), VarExpr("greeting")>>, <<>>) >>, <<>>) >>),
      deploy |-> Definition("Recipe", "deploy",
          << ParameterDefinition("env", "", NoExpr),
             ParameterDefinition("color", "Color", NoExpr) >>,
          <<>>,
          << Block(<< CommandStmt(<<LitExpr("string", "ship "), VarExpr("env")>>, <<>>) >>, <<>>) >>),
      release |-> Definition("Recipe", "release", <<>>,
          << DirectiveCall("parallel", <<>>) >>,
          << Block(<< CallStmt("hello", <<>>),
                      CallStmt("deploy", <<LitExpr("string", "prod")>>),
                      CommandStmt(<<LitExpr("string", "notify")>>,
                                  << DirectiveCall("trace", <<>>),
                                     DirectiveCall("log", <<VarExpr("greeting")>>) >>) >>,
                   << DirectiveCall("log", <<>>) >>) >>),
      broken |-> Definition("Recipe", "broken", <<>>, <<>>,
          << Block(<< CommandStmt(<<LitExpr("string", "echo "), VarExpr("unset")>>, <<>>) >>, <<>>) >>),
      nightly |-> Definition("Job", "nightly", <<>>, <<>>,
          << Block(<< CommandStmt(<<LitExpr("string", "backup")>>, <<>>) >>, <<>>) >>),
      ci |-> Definition("Pipeline", "ci", <<>>, <<>>,
          << Block(<< CallStmt("nightly", <<>>) >>, <<>>) >>),
      tagged |-> Definition("Recipe", "tagged", <<ParameterDefinition("env", "", NoExpr)>>,
          << DirectiveCall("log", <<>>), DirectiveCall("trace", <<>>) >>,
          << Block(<< CommandStmt(<<LitExpr("string", "tag")>>, <<>>) >>, <<>>) >>),
      weekly |-> Definition("Schedule", "weekly", <<>>, <<>>, <<>>),
      hollow |-> Definition("Recipe", "hollow", <<>>, <<>>, << Block(<<>>, <<>>) >>),
      chained |-> Definition("Recipe", "chained", <<>>, <<>>,
          << Block(<< CommandStmt(<<LitExpr("string", "first")>>, <<>>),
                      CallStmt("hollow", <<>>) >>, <<>>) >>),
      loop |-> Definition("Recipe", "loop", <<>>, <<>>,
          << Block(<< CommandStmt(<<LitExpr("string", "again")>>, <<>>),
                      CallStmt("loop", <<>>) >>, <<>>) >>),
      ping |-> Definition("Recipe", "ping", <<>>, <<>>,
          << Block(<< CallStmt("pong", <<>>) >>, <<>>) >>),
      pong |-> Definition("Recipe", "pong", <<>>, <<>>,
          << Block(<< CallStmt("ping", <<>>) >>, <<>>) >>),
      stuck |-> Definition("Recipe", "stuck", <<>>, <<>>,
          << Block(<< CallStmt("missing", <<>>), CallStmt("stuck", <<>>) >>, <<>>) >>),
      wide |-> Definition("Recipe", "wide", <<>>, <<>>,
          << Block(<< CallStmt("wide", <<LitExpr("string", "more")>>) >>, <<>>) >>) ]

\* LoomContext::find_definition: the definition, by name
HasDefinition(name) == name \in DOMAIN Definitions

FindDefinition(name) == Definitions[name]

\* LoomContext::find_enum
HasEnum(name) == name \in DOMAIN Enums


(***************************************************************************)
(* ActiveInterceptor (interceptor/mod.rs): Global, Directive or Executor.  *)
(* beh is what the interceptor object does when intercept is called:       *)
(*   "ok"            returns a result without calling next                  *)
(*   "err"           returns an error without calling next                  *)
(*   "next"          calls next and returns what it returns                 *)
(*   "next_replace"  calls next and returns a result of its own             *)
(*   "parallel"      sets parallelization_kind, then as "next"              *)
(* exec is the executor implementation: Command, SequenceChain,            *)
(* Sequential or Definition.                                               *)
(***************************************************************************)
ActiveInterceptor(kind, name, priority, need_chain, beh, exec, children, parts, args) ==
    [kind |-> kind, name |-> name, priority |-> priority, need_chain |-> need_chain,
     beh |-> beh, exec |-> exec, children |-> children, parts |-> parts, args |-> args]

Global(name, priority, need_chain, beh) ==
    ActiveInterceptor("Global", name, priority, need_chain, beh, "", <<>>, <<>>, <<>>)

Directive(name, priority, need_chain, beh, params) ==
    ActiveInterceptor("Directive", name, priority, need_chain, beh, "", <<>>, <<>>, params)

\* ActiveExecutorInterceptor::new(CommandExecutorInterceptor(parts))
CommandExecutor(parts) ==
    ActiveInterceptor("Executor", "command", I32_MAX, FALSE, "", "Command", <<>>, parts, <<>>)

\* ActiveExecutorInterceptor::new(SequenceChainInterceptor(chain))
SequenceChainExecutor(chain) ==
    ActiveInterceptor("Executor", "SequenceChainInterceptor", I32_MAX, FALSE, "",
                      "SequenceChain", chain, <<>>, <<>>)

\* ActiveExecutorInterceptor::new(SequentialExecutorInterceptor(children, name))
SequentialExecutor(children, name) ==
    ActiveInterceptor("Executor", name, I32_MAX, FALSE, "", "Sequential", children, <<>>, <<>>)

\* ActiveExecutorInterceptor::new(DefinitionExecutorInterceptor(name, target, args));
\* its name() is "definition", the definition's name is kept in parts
DefinitionExecutor(name, target, args) ==
    ActiveInterceptor("Executor", "definition", I32_MAX, FALSE, "", "Definition",
                      target, <<name>>, args)

\* ActiveInterceptor::priority
Priority(a) == IF a.kind = "Executor" THEN I32_MAX ELSE a.priority

\* ActiveInterceptor::need_chain, the need_chain() of the interceptor it wraps
NeedChain(a) == a.need_chain

(***************************************************************************)
(* The state a run threads through the interceptors: the ExecutionContext  *)
(* (variables, parallelization_kind, previous_result) and a log of what    *)
(* was invoked.  oracle fixes the outcomes the code leaves open.           *)
(***************************************************************************)
RunState(variables, kind, oracle) ==
    [variables |-> variables, parallelization_kind |-> kind,
     previous_result |-> NoResult, log |-> <<>>, oracle |-> oracle]

InvokeEvent(path, index, next, st) ==
    [ev |-> "invoke", list |-> path, idx |-> index, next |-> next,
     prev |-> st.previous_result, variables |-> st.variables]

NextEvent(path, index, next) ==
    [ev |-> "next", list |-> path, idx |-> index, next |-> next, prev |-> NoResult,
     variables |-> EmptyMap]

ReturnEvent(path, index, r) ==
    [ev |-> "return", list |-> path, idx |-> index, next |-> r.tag, prev |-> r,
     variables |-> EmptyMap]

WriteEvent(path, held) ==
    [ev |-> "write", list |-> path, idx |-> 0, next |-> held, prev |-> NoResult,
     variables |-> EmptyMap]

Logged(st, e) == [st EXCEPT !.log = Append(@, e)]

Out(r, st) == [r |-> r, st |-> st]

\* what came back from the interceptor at index, noted when it did come back
Returned(o, path, index) ==
    IF Aborts(o.r) THEN o ELSE Out(o.r, Logged(o.st, ReturnEvent(path, index, o.r)))

\* a ? that lets an error through: only a panic or a hang leaves the caller
FailsOnlyOnAbort(r) == Aborts(r)

\* the ? on a result: anything but Ok leaves the caller at once
Fails(r) == r.tag # "Ok"


(***************************************************************************)
(* types.rs: binding the arguments of a call to the parameters.            *)
(***************************************************************************)
BuiltinTypes == {"bool", "number", "float", "string"}

\* ParameterDefinition::value_from_arg
ValueFromArg(param, value, variables) ==
    IF value.e # "None"
    THEN IF param.param_type # ""
         THEN IF param.param_type \in BuiltinTypes
              THEN TryInto(param.param_type, Evaluate(value, variables))
              ELSE IF ~HasEnum(param.param_type)
                   THEN Panic(<<>>, "called Option::unwrap() on a None value")
                   ELSE LET str == TryInto("string", Evaluate(value, variables))
                        IN IF str.tag # "Ok" THEN str
                           ELSE IF str.val.v \in Enums[param.param_type]
                                THEN Ok(Literal("string", str.val.v))
                                ELSE Err(LoomError(<<>>, "not one of the enum values"))
         ELSE Stringify(Evaluate(value, variables))
    ELSE IF param.param_type = "" \/ param.param_type = "bool"
         THEN Ok(Literal("bool", "true"))
         ELSE IF param.default_value.e = "None"
              THEN Err(LoomError(<<>>, "No default value and no value provided"))
              ELSE Evaluate(param.default_value, variables)

\* the index of the first parameter named as the argument, 0 when there is none
FindParameter(parameters, name) ==
    LET m == {k \in 1..Len(parameters) : parameters[k].name = name}
    IN IF m = {} THEN 0 ELSE CHOOSE k \in m : \A j \in m : k <= j

RECURSIVE ArgsIntoVariableFrom(_, _, _, _)
ArgsIntoVariableFrom(parameters, args, i, variables) ==
    IF i > Len(args) THEN Ok(<<>>)
    ELSE LET k == FindParameter(parameters, args[i].name)
         IN IF k = 0 THEN ArgsIntoVariableFrom(parameters, args, i + 1, variables)
            ELSE LET v == ValueFromArg(parameters[k], args[i].value, variables)
                 IN IF v.tag # "Ok" THEN v
                    ELSE LET rest == ArgsIntoVariableFrom(parameters, args, i + 1, variables)
                         IN IF rest.tag # "Ok" THEN rest
                            ELSE Ok(<<[name |-> parameters[k].name, value |-> v.val]>> \o rest.val)

\* Signature::args_into_variable: the (name, value) pairs of the arguments that
\* name a parameter, in argument order, or the first failure
ArgsIntoVariable(parameters, args, variables) ==
    ArgsIntoVariableFrom(parameters, args, 1, variables)

\* a binding that keeps what the parameters can take and drops the rest
PositionalArgUnchecked(parameters, args) ==
    Ok([i \in 1..(IF Len(args) < Len(parameters) THEN Len(args) ELSE Len(parameters)) |->
           InputArg(parameters[i].name, args[i])])

\* Signature::positional_arg_from_expression
PositionalArgFromExpression(parameters, args) ==
    IF Len(args) > Len(parameters)
    THEN Err(LoomError(<<>>, "too many arguments"))
    ELSE Ok([i \in 1..Len(args) |-> InputArg(parameters[i].name, args[i])])

(***************************************************************************)
(* executor/implementation/command.rs                                      *)
(***************************************************************************)
RECURSIVE CommandText(_, _, _)
\* the map over the parts in launch_interceptor: each part evaluated in order,
\* a value that is no literal panics, the first error ends the collect
CommandText(parts, i, variables) ==
    IF i > Len(parts) THEN Ok(<<>>)
    ELSE LET v == Evaluate(parts[i], variables)
         IN IF v.tag # "Ok" THEN v
            ELSE IF v.val.t # "Literal" THEN Panic(<<>>, "Unexpected")
            ELSE LET rest == CommandText(parts, i + 1, variables)
                 IN IF rest.tag # "Ok" THEN rest ELSE Ok(<<v.val.v>> \o rest.val)

\* what Command::output() can come back with: the process exited with a
\* code, it ended without one (a signal), or it could not be spawned
Exited(code) == [spawned |-> TRUE, code |-> <<code>>]

Signalled == [spawned |-> TRUE, code |-> <<>>]

NotSpawned == [spawned |-> FALSE, code |-> <<>>]

\* the outcome of the process of a command: what the oracle of the run says
\* for its text, exit code 0 where it says nothing
ProcessOf(st, command) ==
    IF "process" \in DOMAIN st.oracle
    THEN (IF command \in DOMAIN st.oracle.process THEN st.oracle.process[command]
          ELSE Exited(0))
    ELSE Exited(0)

\* an execute_command that answers with an error unless the process exited
\* with code 0
ExecuteCommandStrict(path, command, process) ==
    IF process = Exited(0) THEN Ok(ExecutionResult(path, command))
    ELSE Err(LoomError(path, "command failed"))

\* CommandExecutorInterceptor::execute_command, dry_run being false
ExecuteCommand(path, command, process) ==
    Ok([ExecutionResult(path, command) EXCEPT !.exit_code = process.code,
                                              !.system_error = ~process.spawned])

\* CommandExecutorInterceptor::launch_interceptor: the result carries the
\* command text in its metadata whatever the process did
CommandIntercept(e, path, st) ==
    LET t == CommandText(e.parts, 1, st.variables)
    IN IF t.tag = "Ok" THEN Out(ExecuteCommand(path, t.val, ProcessOf(st, t.val)), st)
       ELSE IF t.tag = "Panic" THEN Out(Panic(path, t.val.msg), st)
       ELSE Out(Err(LoomError(path, t.val.msg)), st)

(***************************************************************************)
(* executor/implementation/definition.rs: the read guard taken for         *)
(* args_into_variable is a temporary of the whole statement, so it is      *)
(* still alive when the closure of try_for_each asks for the write guard.  *)
(***************************************************************************)
ReadGuardAliveAtInsert == TRUE

RECURSIVE InsertVariables(_, _, _)
InsertVariables(variables, pairs, i) ==
    IF i > Len(pairs) THEN variables
    ELSE InsertVariables(Put(variables, pairs[i].name, pairs[i].value), pairs, i + 1)


(***************************************************************************)
(* interceptor/engine.rs and executor/implementation: running a chain.     *)
(* Lists are 1-based here; path names the list that is running, as the     *)
(* positions of the executors that enclose it.                             *)
(***************************************************************************)
RECURSIVE ExecuteChainFrom(_, _, _, _)
RECURSIVE ExecuteChainRecursive(_, _, _, _)
RECURSIVE LaunchInterceptor(_, _, _, _, _)
RECURSIVE CallNext(_, _, _, _, _)
RECURSIVE Intercept(_, _, _, _, _)
RECURSIVE ExecutorIntercept(_, _, _)
RECURSIVE DefinitionIntercept(_, _, _)
RECURSIVE SequentialFrom(_, _, _, _)

\* a continuation that answers Ok when called
EmptyNextSucceeds(path, st) == Out(Ok(ExecutionResult(path, <<>>)), st)

\* empty_execute_intercept_next: the continuation that fails when called
EmptyExecuteInterceptNext(path, st) ==
    Out(Err(LoomError(path, "You are trying to call an empty interceptor chain")), st)

\* execute_chain, the test after an interceptor without chain returned Ok:
\* the result is returned only at the last index
ReturnsResult(chain, index) == index = Len(chain)

\* a continuation that never resumes the chain
NextNeverResumes(chain, next_index) == FALSE

\* create_next_chain: whether the continuation made for next_index resumes
\* the chain there
NextResumes(chain, next_index) == next_index <= Len(chain)

\* execute_chain: the while loop, from index on
ExecuteChainFrom(chain, path, index, st) ==
    IF index > Len(chain)
    THEN Out(Err(LoomError(path, "No interceptor executed")), st)
    ELSE IF NeedChain(chain[index])
         THEN ExecuteChainRecursive(chain, path, index, st)
         ELSE LET o == LaunchInterceptor(chain, path, index, "empty", st)
              IN IF Fails(o.r) THEN o
                 ELSE IF ReturnsResult(chain, index) THEN o
                 ELSE ExecuteChainFrom(chain, path, index + 1, o.st)

\* InterceptorEngine::execute_chain
ExecuteChain(chain, path, st) ==
    IF Len(chain) = 0
    THEN Out(Err(LoomError(path, "Empty interceptor chain")), st)
    ELSE ExecuteChainFrom(chain, path, 1, st)

\* InterceptorEngine::execute_chain_recursive
ExecuteChainRecursive(chain, path, index, st) ==
    IF index > Len(chain)
    THEN Out(Err(LoomError(path, "Chain index out of bounds")), st)
    ELSE LaunchInterceptor(chain, path, index, "real", st)

\* the continuation handed to the interceptor at index, when it is called:
\* "empty" is empty_execute_intercept_next, "real" create_next_chain(index + 1)
CallNext(chain, path, index, next, st) ==
    LET st1 == Logged(st, NextEvent(path, index, next))
    IN IF next = "empty" THEN EmptyExecuteInterceptNext(path, st1)
       ELSE IF NextResumes(chain, index + 1)
            THEN ExecuteChainRecursive(chain, path, index + 1, st1)
            ELSE Out(Err(LoomError(path, "End of interceptor chain reached")), st1)

\* InterceptorEngine::launch_interceptor
LaunchInterceptor(chain, path, index, next, st) ==
    LET st1 == Logged(st, InvokeEvent(path, index, next, st))
    IN Returned(IF chain[index].kind = "Executor"
                THEN ExecutorIntercept(chain[index], Append(path, index), st1)
                ELSE Intercept(chain, path, index, next, st1),
                path, index)

\* GlobalInterceptor::intercept / DirectiveInterceptor::intercept of the
\* interceptor object at index, by what the object does
Intercept(chain, path, index, next, st) ==
    LET e == chain[index]
        own == Append(path, index)
    IN CASE e.beh = "ok" -> Out(Ok(ExecutionResult(own, <<>>)), st)
         [] e.beh = "err" -> Out(Err(LoomError(own, "interceptor failed")), st)
         [] e.beh = "next" -> CallNext(chain, path, index, next, st)
         [] e.beh = "parallel" ->
                CallNext(chain, path, index, next,
                         [st EXCEPT !.parallelization_kind = "Parallel"])
         [] OTHER ->
                LET o == CallNext(chain, path, index, next, st)
                IN IF Aborts(o.r) THEN o
                   ELSE Out(Ok(ExecutionResult(own, <<>>)), o.st)

\* ExecutorInterceptor::intercept of the executor at path
ExecutorIntercept(e, path, st) ==
    CASE e.exec = "Command" -> CommandIntercept(e, path, st)
      [] e.exec = "SequenceChain" -> ExecuteChain(e.children, path, st)
      [] e.exec = "Sequential" -> SequentialFrom(e.children, path, 1, st)
      [] OTHER -> DefinitionIntercept(e, path, st)

\* DefinitionExecutorInterceptor::intercept
DefinitionIntercept(e, path, st) ==
    IF ~HasDefinition(e.parts[1])
    THEN Out(Panic(path, "called Option::unwrap() on a None value"), st)
    ELSE LET b == ArgsIntoVariable(FindDefinition(e.parts[1]).parameters, e.args,
                                   st.variables)
         IN IF b.tag # "Ok" THEN Out([tag |-> b.tag, val |-> LoomError(path, b.val.msg)], st)
            ELSE IF Len(b.val) = 0 THEN ExecuteChain(e.children, path, st)
            ELSE IF ReadGuardAliveAtInsert
                 THEN LET st1 == Logged(st, WriteEvent(path, "read guard held"))
                      IN IF st.oracle.lock = "Hang"
                         THEN Out(Hang(path, "write() waits for the read guard of its own flow"), st1)
                         ELSE Out(Panic(path, "rwlock write lock would result in deadlock"), st1)
                 ELSE ExecuteChain(e.children, path,
                          [Logged(st, WriteEvent(path, "free"))
                              EXCEPT !.variables = InsertVariables(st.variables, b.val, 1)])

\* a loop that leaves previous_result as it was
KeepPreviousResult(st, r) == st

\* context.previous_result = Some(result)
SetPreviousResult(st, r) == [st EXCEPT !.previous_result = r]

\* SequentialExecutorInterceptor::intercept: the loop from child k on, then
\* previous_result.take()
SequentialFrom(children, path, k, st) ==
    IF k > Len(children)
    THEN IF st.previous_result.tag = "Ok"
         THEN Out(st.previous_result, [st EXCEPT !.previous_result = NoResult])
         ELSE Out(Err(LoomError(path, "The result of a SequentialExecutor should not be None")), st)
    ELSE IF children[k].kind # "Executor"
         THEN Out(Err(LoomError(path, "SequentialExecutor should contain only executor Interceptor")), st)
         ELSE LET st1 == Logged(st, InvokeEvent(path, k, "empty", st))
                  o == Returned(ExecutorIntercept(children[k], Append(path, k), st1), path, k)
              IN IF Fails(o.r) THEN o
                 ELSE SequentialFrom(children, path, k + 1, SetPreviousResult(o.st, o.r))


(***************************************************************************)
(* Sorting by descending priority.                                         *)
(***************************************************************************)
\* x placed after the elements that do not sort after it: what a stable sort
\* does with the last element of its input
InsertStable(sorted, x) ==
    LET k == Cardinality({i \in 1..Len(sorted) : sorted[i].priority >= x.priority})
    IN SubSeq(sorted, 1, k) \o <<x>> \o SubSeq(sorted, k + 1, Len(sorted))

\* x placed before the elements of its own priority: equal elements reversed
InsertReversed(sorted, x) ==
    LET k == Cardinality({i \in 1..Len(sorted) : sorted[i].priority > x.priority})
    IN SubSeq(sorted, 1, k) \o <<x>> \o SubSeq(sorted, k + 1, Len(sorted))

RECURSIVE SortReversingTies(_)
\* a sort that reverses the elements of equal priority
SortReversingTies(s) ==
    IF Len(s) = 0 THEN <<>>
    ELSE InsertReversed(SortReversingTies(SubSeq(s, 1, Len(s) - 1)), s[Len(s)])

RECURSIVE SortBy(_)
\* slice::sort_by(|a, b| b.priority.cmp(&a.priority)): stable
SortBy(s) ==
    IF Len(s) = 0 THEN <<>> ELSE InsertStable(SortBy(SubSeq(s, 1, Len(s) - 1)), s[Len(s)])

RECURSIVE SortUnstableBy(_, _)
\* slice::sort_unstable_by(ActiveInterceptor::sort): the order of equal
\* elements is not promised; flip chooses between keeping and reversing it
SortUnstableBy(s, flip) ==
    IF Len(s) = 0 THEN <<>>
    ELSE IF flip
         THEN InsertReversed(SortUnstableBy(SubSeq(s, 1, Len(s) - 1), flip), s[Len(s)])
         ELSE InsertStable(SortUnstableBy(SubSeq(s, 1, Len(s) - 1), flip), s[Len(s)])

(***************************************************************************)
(* interceptor/global: configurations, activation, the manager.            *)
(***************************************************************************)
GlobalInterceptorConfig(enabled, priority, conditions, user_overridable) ==
    [enabled |-> enabled, priority |-> priority, conditions |-> conditions,
     user_overridable |-> user_overridable]

\* an interceptor object: its name(), default_config(), need_chain() and
\* what its intercept does
GlobalInterceptor(name, default_config, need_chain, beh) ==
    [name |-> name, default_config |-> default_config, need_chain |-> need_chain,
     beh |-> beh]

Environment(envs) == [c |-> "Environment", vals |-> envs]

TargetType(types) == [c |-> "TargetType", vals |-> types]

CommandPattern == [c |-> "CommandPattern", vals |-> {}]

Custom == [c |-> "Custom", vals |-> {}]

\* the ExecutionContext execute() builds, as far as activation reads it
ExecutionContext(variables, env_vars, scope) ==
    [variables |-> variables, env_vars |-> env_vars, scope |-> scope]

\* GlobalInterceptor::evaluate_condition
EvaluateCondition(condition, context) ==
    CASE condition.c = "TargetType" ->
             (CASE context.scope = "Command" -> "command"
                [] context.scope = "Pipeline" -> "pipeline"
                [] context.scope = "Job" -> "job"
                [] OTHER -> "other") \in condition.vals
      [] condition.c = "Environment" ->
             (IF "LOOM_ENV" \in DOMAIN context.env_vars THEN context.env_vars["LOOM_ENV"]
              ELSE IF "ENVIRONMENT" \in DOMAIN context.env_vars
                   THEN context.env_vars["ENVIRONMENT"]
                   ELSE "development") \in condition.vals
      [] condition.c = "CommandPattern" -> FALSE
      [] OTHER -> TRUE

\* an activation test that looks at the enabled flag alone
EnabledOnly(context, config) == config.enabled

\* GlobalInterceptor::should_activate
ShouldActivate(context, config) ==
    /\ config.enabled
    /\ \A i \in 1..Len(config.conditions) : EvaluateCondition(config.conditions[i], context)

\* GlobalInterceptorManager::validate_global_priority
ValidateGlobalPriority(priority) ==
    \E range \in {CRITICAL_SYSTEM, GLOBAL_HIGH, GLOBAL_NORMAL, GLOBAL_SUPPORT, MONITORING} :
        RangeContains(range, priority)

\* DirectiveInterceptorManager::validate_directive_priority
ValidateDirectivePriority(priority) ==
    \E range \in {DIRECTIVE_HIGH, DIRECTIVE_NORMAL, DIRECTIVE_SUPPORT} :
        RangeContains(range, priority)

Names(s) == {s[i].name : i \in 1..Len(s)}

\* ActiveGlobalInterceptor of the interceptor object o under config
ActiveGlobalInterceptor(o, config) ==
    [name |-> o.name, priority |-> config.priority, config |-> config,
     need_chain |-> o.need_chain, beh |-> o.beh]

RECURSIVE ActiveFrom(_, _, _, _, _)
ActiveFrom(ics, cfgs, ovr, context, i) ==
    IF i > Len(ics) THEN <<>>
    ELSE LET name == ics[i].name
             config == IF name \in DOMAIN ovr
                       THEN [cfgs[name] EXCEPT !.enabled = ovr[name]]
                       ELSE cfgs[name]
         IN (IF ShouldActivate(context, config)
             THEN <<ActiveGlobalInterceptor(ics[i], config)>> ELSE <<>>)
            \o ActiveFrom(ics, cfgs, ovr, context, i + 1)

\* GlobalInterceptorManager::get_active: the interceptors in the iteration
\* order of the map, each under its configuration with the user override
\* applied, those that activate, sorted
GetActive(ics, cfgs, ovr, context) == SortBy(ActiveFrom(ics, cfgs, ovr, context, 1))

(***************************************************************************)
(* interceptor/directive: the manager.                                     *)
(***************************************************************************)
\* an interceptor object: directive_name(), priority(), need_chain() and
\* what its intercept does
DirectiveInterceptor(name, priority, need_chain, beh) ==
    [name |-> name, priority |-> priority, need_chain |-> need_chain, beh |-> beh]

RECURSIVE EvaluateAll(_, _, _)
EvaluateAll(exprs, variables, i) ==
    IF i > Len(exprs) THEN Ok(<<>>)
    ELSE LET v == Evaluate(exprs[i], variables)
         IN IF v.tag # "Ok" THEN v
            ELSE LET rest == EvaluateAll(exprs, variables, i + 1)
                 IN IF rest.tag # "Ok" THEN rest ELSE Ok(<<v.val>> \o rest.val)

\* DirectiveInterceptor::parse_parameters: the arguments of the call as values
ParseParameters(context, call) == EvaluateAll(call.args, context.variables, 1)

RECURSIVE BuildActiveFrom(_, _, _, _)
BuildActiveFrom(dis, context, directives, i) ==
    IF i > Len(directives) THEN Ok(<<>>)
    ELSE IF directives[i].name \notin DOMAIN dis
         THEN Err(LoomError(<<>>, "Unknown directive"))
         ELSE LET params == ParseParameters(context, directives[i])
                  o == dis[directives[i].name]
              IN IF params.tag # "Ok" THEN params
                 ELSE LET rest == BuildActiveFrom(dis, context, directives, i + 1)
                      IN IF rest.tag # "Ok" THEN rest
                         ELSE Ok(<<Directive(directives[i].name, o.priority, o.need_chain,
                                             o.beh, params.val)>> \o rest.val)

\* a build_active that passes over the directives nobody registered
BuildActiveKnown(dis, context, directives) ==
    LET known(call) == call.name \in DOMAIN dis
        active == BuildActiveFrom(dis, context, SelectSeq(directives, known), 1)
    IN IF active.tag # "Ok" THEN active ELSE Ok(SortBy(active.val))

\* a build_active that parses the arguments after greeting was bound anew
BuildActiveLate(dis, context, directives) ==
    LET bound == [context EXCEPT !.variables =
                     Put(@, "greeting", Literal("string", "late"))]
        active == BuildActiveFrom(dis, bound, directives, 1)
    IN IF active.tag # "Ok" THEN active ELSE Ok(SortBy(active.val))

\* DirectiveInterceptorManager::build_active
BuildActive(dis, context, directives) ==
    LET active == BuildActiveFrom(dis, context, directives, 1)
    IN IF active.tag # "Ok" THEN active ELSE Ok(SortBy(active.val))


(***************************************************************************)
(* interceptor/scope.rs: the execution activities.                         *)
(***************************************************************************)
ExecutionActivity(tag, name, directives, blocks, stmt) ==
    [tag |-> tag, name |-> name, directives |-> directives, blocks |-> blocks,
     stmt |-> stmt]

NoStmt == CommandStmt(<<>>, <<>>)

CommandActivity(stmt) == ExecutionActivity("Command", "", <<>>, <<>>, stmt)

\* Block(BlockTarget) and Stage(BlockTarget): the one block is kept in blocks
BlockActivity(tag, block) == ExecutionActivity(tag, "", block.directives, <<block>>, NoStmt)

\* impl From<&Definition> for ExecutionScope
ScopeOf(definition) ==
    CASE definition.kind = "Job" -> "Definition"
      [] definition.kind = "Recipe" -> "Command"
      [] definition.kind = "Schedule" -> "Block"
      [] OTHER -> "Pipeline"

\* impl From<&Definition> for ExecutionActivity
ActivityOf(definition) ==
    CASE definition.kind = "Recipe" ->
             ExecutionActivity("Definition", definition.name, definition.directives,
                               definition.body, NoStmt)
      [] definition.kind = "Job" ->
             ExecutionActivity("Job", definition.name, definition.directives,
                               definition.body, NoStmt)
      [] definition.kind = "Pipeline" ->
             ExecutionActivity("Pipeline", definition.name, definition.directives,
                               definition.body, NoStmt)
      [] OTHER ->
             ExecutionActivity("Schedule", definition.name, definition.directives,
                               <<>>, NoStmt)

\* a build_child that makes a Block of every block, those of a pipeline
\* too, and expands nothing else
BuildChildBlocks(activity) ==
    IF activity.tag \in {"Job", "Definition", "Pipeline"}
    THEN [i \in 1..Len(activity.blocks) |-> BlockActivity("Block", activity.blocks[i])]
    ELSE <<>>

\* ExecutionActivity::build_child for Block, Job, Definition and Pipeline;
\* Command and Schedule have no children.  The Stage arm, which resolves the
\* jobs of a stage, is left out: build_target_chain never expands a Stage.
BuildChild(activity) ==
    CASE activity.tag = "Block" ->
             [i \in 1..Len(activity.blocks[1].statements) |->
                 CommandActivity(activity.blocks[1].statements[i])]
      [] activity.tag \in {"Job", "Definition"} ->
             [i \in 1..Len(activity.blocks) |-> BlockActivity("Block", activity.blocks[i])]
      [] activity.tag = "Pipeline" ->
             [i \in 1..Len(activity.blocks) |-> BlockActivity("Stage", activity.blocks[i])]
      [] OTHER -> <<>>

(***************************************************************************)
(* interceptor/engine.rs: the chain builder.                               *)
(***************************************************************************)
GlobalOf(g) == Global(g.name, g.priority, g.need_chain, g.beh)

\* a builder that pushes the target before it sorts
SortWithTarget(global, directive, target_interceptor, flip) ==
    SortUnstableBy(Append([i \in 1..Len(global) |-> GlobalOf(global[i])] \o directive,
                          target_interceptor), flip)

\* a builder that leaves the globals out
PlugDirectivesOnly(global, directive, target_interceptor, flip) ==
    Append(SortUnstableBy(directive, flip), target_interceptor)

\* InterceptorEngine::plug_and_sort_chain
PlugAndSortChain(global, directive, target_interceptor, flip) ==
    Append(SortUnstableBy([i \in 1..Len(global) |-> GlobalOf(global[i])] \o directive, flip),
           target_interceptor)

RECURSIVE BuildTargetChain(_, _, _, _, _, _)
RECURSIVE BuildTargetEfficientlyFrom(_, _, _, _, _, _)

\* InterceptorEngine::build_target_efficiently: one SequenceChainInterceptor
\* per child, from child i on
BuildTargetEfficientlyFrom(dis, context, children, global, flip, i) ==
    IF i > Len(children) THEN Ok(<<>>)
    ELSE LET chain == BuildTargetChain(dis, context, children[i], global, <<>>, flip)
         IN IF chain.tag # "Ok" THEN chain
            ELSE LET rest == BuildTargetEfficientlyFrom(dis, context, children, global, flip, i + 1)
                 IN IF rest.tag # "Ok" THEN rest
                    ELSE Ok(<<SequenceChainExecutor(chain.val)>> \o rest.val)

\* InterceptorEngine::build_target_chain
BuildTargetChain(dis, context, activity, global, args, flip) ==
    CASE activity.tag = "Command" /\ activity.stmt.t = "Command" ->
             LET d == BuildActive(dis, context, activity.stmt.directives)
             IN IF d.tag # "Ok" THEN d
                ELSE Ok(PlugAndSortChain(global, d.val, CommandExecutor(activity.stmt.parts), flip))
      [] activity.tag = "Command" /\ activity.stmt.t = "Call" ->
             IF ~HasDefinition(activity.stmt.name)
             THEN Err(LoomError(<<>>, "Definition non esistente"))
             ELSE LET callee == FindDefinition(activity.stmt.name)
                      converted == PositionalArgFromExpression(callee.parameters, activity.stmt.args)
                  IN IF converted.tag # "Ok" THEN converted
                     ELSE BuildTargetChain(dis, context, ActivityOf(callee), global,
                                           converted.val, flip)
      [] activity.tag \in {"Block", "Definition"} ->
             LET target == BuildTargetEfficientlyFrom(dis, context, BuildChild(activity),
                                                      global, flip, 1)
                 d == BuildActive(dis, context, activity.directives)
             IN IF target.tag # "Ok" THEN target
                ELSE IF d.tag # "Ok" THEN d
                ELSE Ok(PlugAndSortChain(global, d.val,
                        IF activity.tag = "Block"
                        THEN SequentialExecutor(target.val, "Block")
                        ELSE DefinitionExecutor(activity.name, target.val, args),
                        flip))
      [] OTHER -> Ok(<<>>)

(***************************************************************************)
(* The managers' operations, as functions of the manager's state.          *)
(***************************************************************************)
\* the iteration order of the map after name is inserted: a name already
\* there keeps its place, a new one lands at place k
InsertAt(ics, o, k) ==
    IF o.name \in Names(ics)
    THEN [i \in 1..Len(ics) |-> IF ics[i].name = o.name THEN o ELSE ics[i]]
    ELSE SubSeq(ics, 1, k - 1) \o <<o>> \o SubSeq(ics, k, Len(ics))

\* a configure that does not ask whether the interceptor is registered
ConfigureAcceptsAnyName(ics, name, config) == ValidateGlobalPriority(config.priority)

\* GlobalInterceptorManager::configure: the interceptor must be registered
\* and the priority of the configuration in a global band
ConfigureAccepts(ics, name, config) ==
    name \in Names(ics) /\ ValidateGlobalPriority(config.priority)

\* GlobalInterceptorManager::set_user_override: the interceptor must have a
\* configuration that is user_overridable
OverrideAccepts(cfgs, name) ==
    name \in DOMAIN cfgs /\ cfgs[name].user_overridable

(***************************************************************************)
(* The engine: register_global, register_directive, configure_global,      *)
(* override_global and execute.  Each of the first four clears the chain   *)
(* cache before it asks the manager.                                       *)
(***************************************************************************)
OpResult(op, name, priority, ok) ==
    [op |-> op, name |-> name, priority |-> priority, ok |-> ok]

\* InterceptorEngine::register_global
RegisterGlobal(o, k) ==
    LET ok == ValidateGlobalPriority(o.default_config.priority)
    IN /\ k <= Len(interceptors) + 1
       /\ chain_cache' = EmptyMap
       /\ interceptors' = IF ok THEN InsertAt(interceptors, o, k) ELSE interceptors
       /\ configs' = IF ok THEN Put(configs, o.name, o.default_config) ELSE configs
       /\ last' = OpResult("register_global", o.name, o.default_config.priority, ok)
       /\ registered' = IF ok /\ o.name \notin Names(interceptors)
                         THEN Append(registered, o.name) ELSE registered
       /\ UNCHANGED <<user_overrides, d_interceptors>>

\* InterceptorEngine::register_directive
RegisterDirective(o) ==
    LET ok == ValidateDirectivePriority(o.priority)
    IN /\ chain_cache' = EmptyMap
       /\ d_interceptors' = IF ok THEN Put(d_interceptors, o.name, o) ELSE d_interceptors
       /\ last' = OpResult("register_directive", o.name, o.priority, ok)
       /\ UNCHANGED <<interceptors, configs, user_overrides>>

\* InterceptorEngine::configure_global
ConfigureGlobal(name, config) ==
    LET ok == ConfigureAccepts(interceptors, name, config)
    IN /\ chain_cache' = EmptyMap
       /\ configs' = IF ok THEN Put(configs, name, config) ELSE configs
       /\ last' = OpResult("configure_global", name, config.priority, ok)
       /\ UNCHANGED <<interceptors, user_overrides, d_interceptors>>

\* an override_global that leaves the cache as it is
OverrideKeepsCache(name, enabled) ==
    LET ok == OverrideAccepts(configs, name)
    IN /\ user_overrides' = IF ok THEN Put(user_overrides, name, enabled) ELSE user_overrides
       /\ last' = [OpResult("override_global", name, 0, ok) EXCEPT !.priority = enabled]
       /\ UNCHANGED <<interceptors, configs, d_interceptors, chain_cache>>

\* InterceptorEngine::override_global
OverrideGlobal(name, enabled) ==
    LET ok == OverrideAccepts(configs, name)
    IN /\ chain_cache' = EmptyMap
       /\ user_overrides' = IF ok THEN Put(user_overrides, name, enabled) ELSE user_overrides
       /\ last' = [OpResult("override_global", name, 0, ok) EXCEPT !.priority = enabled]
       /\ UNCHANGED <<interceptors, configs, d_interceptors>>

\* the cache key of execute: format!("{}_{}", def_name, input_args.len())
CacheKey(def_name, input_args) == <<def_name, Len(input_args)>>

\* what execute() was given and what came of it: the result, the log of the
\* run, the chain handed to execute_chain, the chains build_target_chain
\* gives for this call, and how far execute() went: built (a chain was
\* built), hit (the cache answered), cached (a chain was put in the cache),
\* ran (execute_chain was called)
Executed(def_name, input_args, env_vars, r, log, chain, fresh, built, hit, cached, ran) ==
    [op |-> "execute", def |-> def_name, args |-> input_args, env |-> env_vars,
     r |-> r, log |-> log, chain |-> chain, fresh |-> fresh, built |-> built,
     hit |-> hit, cached |-> cached, ran |-> ran]

\* the outcomes the platform's RwLock has for a write() under a read guard
\* of the same thread
LockOutcomes == {"Hang", "Panic"}

\* InterceptorEngine::execute, where variables are those the registry holds
\* for the definition (get_variables) at the time of the call
ExecuteUnder(def_name, input_args, env_vars, variables) ==
    IF ~HasDefinition(def_name)
    THEN /\ last' = Executed(def_name, input_args, env_vars,
                             Err(LoomError(<<>>, "Cannot find the definition")),
                             <<>>, <<>>, {}, FALSE, FALSE, FALSE, FALSE)
         /\ UNCHANGED <<interceptors, configs, user_overrides, d_interceptors, chain_cache>>
    ELSE LET definition == FindDefinition(def_name)
             context == ExecutionContext(variables, env_vars, ScopeOf(definition))
             target == ActivityOf(definition)
             global == GetActive(interceptors, configs, user_overrides, context)
             key == CacheKey(def_name, input_args)
             hit == key \in DOMAIN chain_cache
             fresh == {BuildTargetChain(d_interceptors, context, target, global, input_args, flip) :
                          flip \in BOOLEAN}
         IN /\ UNCHANGED <<interceptors, configs, user_overrides, d_interceptors>>
            /\ \E build \in fresh :
                  IF ~hit /\ build.tag # "Ok"
                  THEN /\ last' = Executed(def_name, input_args, env_vars, build, <<>>, <<>>,
                                           fresh, TRUE, FALSE, FALSE, FALSE)
                       /\ UNCHANGED chain_cache
                  ELSE LET chain == IF hit THEN chain_cache[key] ELSE build.val
                       IN \E o \in {ExecuteChain(chain, <<>>,
                                        RunState(context.variables, "Sequential", [lock |-> l])) :
                                    l \in LockOutcomes} :
                             /\ chain_cache' = IF hit THEN chain_cache
                                               ELSE Put(chain_cache, key, chain)
                             /\ last' = Executed(def_name, input_args, env_vars, o.r, o.st.log,
                                                 chain, fresh, ~hit, hit, ~hit, TRUE)

\* InterceptorEngine::execute on the registry of the samples
Execute(def_name, input_args, env_vars) ==
    ExecuteUnder(def_name, input_args, env_vars, ModuleVariables)

(***************************************************************************)
(* The engine under a small catalogue of interceptors and calls.           *)
(***************************************************************************)
Guard ==
    GlobalInterceptor("guard", GlobalInterceptorConfig(TRUE, 6000,
                          <<Environment({"production"})>>, TRUE), TRUE, "next")

Stray == GlobalInterceptor("stray", GlobalInterceptorConfig(TRUE, 4000, <<>>, TRUE), TRUE, "next")

GlobalCatalogue == {Guard, Stray}

DirectiveCatalogue ==
    { DirectiveInterceptor("log", 700, TRUE, "next"),
      DirectiveInterceptor("if", 100, FALSE, "ok") }

ConfigCatalogue ==
    { GlobalInterceptorConfig(FALSE, 6000, <<>>, TRUE),
      GlobalInterceptorConfig(TRUE, 4000, <<>>, TRUE) }

NameCatalogue == {"guard"}

DefCatalogue == {"hello", "deploy", "broken", "missing"}

ArgsCatalogue ==
    { <<>>,
      <<InputArg("env", LitExpr("string", "prod"))>>,
      <<InputArg("env", LitExpr("string", "dev"))>>,
      <<InputArg("env", VarExpr("nowhere"))>> }

EnvCatalogue == { EmptyMap, [LOOM_ENV |-> "production"] }

Init ==
    /\ interceptors = <<>>
    /\ configs = EmptyMap
    /\ user_overrides = EmptyMap
    /\ d_interceptors = EmptyMap
    /\ chain_cache = EmptyMap
    /\ last = [op |-> "new"]
    /\ nexec = 0
    /\ handlers = EmptyMap
    /\ registered = <<>>

Next ==
    \/ \E o \in GlobalCatalogue, k \in 1..2 : RegisterGlobal(o, k) /\ UNCHANGED <<nexec, handlers>>
    \/ \E o \in DirectiveCatalogue :
          RegisterDirective(o) /\ UNCHANGED <<nexec, handlers, registered>>
    \/ \E name \in NameCatalogue, config \in ConfigCatalogue :
          ConfigureGlobal(name, config) /\ UNCHANGED <<nexec, handlers, registered>>
    \/ \E name \in NameCatalogue, enabled \in BOOLEAN :
          OverrideGlobal(name, enabled) /\ UNCHANGED <<nexec, handlers, registered>>
    \/ \E def_name \in DefCatalogue, input_args \in ArgsCatalogue, env_vars \in EnvCatalogue :
          /\ nexec < MaxExec /\ Execute(def_name, input_args, env_vars) /\ nexec' = nexec + 1
          /\ UNCHANGED <<handlers, registered>>

Spec == Init /\ [][Next]_vars

(***************************************************************************)
(* execute_chain on its own: a chain as the builder makes them (sorted,    *)
(* one executor, last) is drawn, then run.                                 *)
(***************************************************************************)
\* the priority given to the interceptor at a position, by its kind: any
\* choice of kinds gives a sorted chain
PriorityAt(kind, i) ==
    IF kind = "Global" THEN (CASE i = 1 -> 9500 [] i = 2 -> 6000 [] i = 3 -> 2000 [] OTHER -> 100)
    ELSE (CASE i = 1 -> 7500 [] i = 2 -> 4000 [] i = 3 -> 700 [] OTHER -> 500)

Behaviours == {"ok", "err", "next", "next_replace"}

Shapes == [kind : {"Global", "Directive"}, need_chain : BOOLEAN, beh : Behaviours]

NonTerminal(shape, i) ==
    IF shape.kind = "Global"
    THEN Global("g", PriorityAt("Global", i), shape.need_chain, shape.beh)
    ELSE Directive("d", PriorityAt("Directive", i), shape.need_chain, shape.beh, <<>>)

\* command executors that succeed, fail and panic under ModuleVariables
CommandSamples ==
    { CommandExecutor(<<LitExpr("string", "echo "), VarExpr("greeting")>>),
      CommandExecutor(<<VarExpr("nowhere")>>),
      CommandExecutor(<<VarExpr("unset")>>) }

InputChains ==
    {<<>>} \cup
    { [i \in 1..Len(shapes) |-> NonTerminal(shapes[i], i)] \o <<e>> :
         shapes \in SeqsUpTo(Shapes, MaxChain), e \in CommandSamples }

InitChain ==
    /\ interceptors = <<>>
    /\ configs = EmptyMap
    /\ user_overrides = EmptyMap
    /\ d_interceptors = EmptyMap
    /\ chain_cache = EmptyMap
    /\ nexec = 0
    /\ handlers = EmptyMap
    /\ registered = <<>>
    /\ \E chain \in InputChains : last = [op |-> "chain", chain |-> chain]

\* InterceptorEngine::execute_chain(context, chain)
RunChain ==
    /\ last.op = "chain"
    /\ LET o == ExecuteChain(last.chain, <<>>,
                             RunState(ModuleVariables, "Sequential", [lock |-> "Hang"]))
       IN last' = [op |-> "execute_chain", chain |-> last.chain, r |-> o.r, log |-> o.st.log]
    /\ UNCHANGED <<interceptors, configs, user_overrides, d_interceptors, chain_cache, nexec,
                   handlers, registered>>

NextChain == RunChain

SpecChain == InitChain /\ [][NextChain]_vars

(***************************************************************************)
(* Reading the log of a run.                                               *)
(***************************************************************************)
IsInvoke(e, list) == e.ev = "invoke" /\ e.list = list

IsReturn(e, list) == e.ev = "return" /\ e.list = list

IsNext(e, list) == e.ev = "next" /\ e.list = list

\* the positions of the log where the interceptor at index of list is invoked
InvokesOf(log, list, index) == {q \in 1..Len(log) : IsInvoke(log[q], list) /\ log[q].idx = index}

\* an interceptor of list at an index above index is invoked after position p
InvokedLaterThan(log, p, list, index) ==
    \E q \in (p + 1)..Len(log) : IsInvoke(log[q], list) /\ log[q].idx > index

\* the interceptor at index of list called its continuation
Delegated(log, list, index) ==
    \E q \in 1..Len(log) : IsNext(log[q], list) /\ log[q].idx = index

\* the positions where the interceptor at index of list returned
ReturnsOf(log, list, index) == {q \in 1..Len(log) : IsReturn(log[q], list) /\ log[q].idx = index}

\* the index of the first interceptor of the chain that needs the chain, 0 if none
FirstNeedChain(chain) ==
    LET m == {i \in 1..Len(chain) : NeedChain(chain[i])}
    IN IF m = {} THEN 0 ELSE CHOOSE i \in m : \A j \in m : i <= j

RanChain == last.op = "execute_chain"

(***************************************************************************)
(* C2: in a run of execute_chain, once a directive interceptor that does   *)
(* not need the chain and is followed by other interceptors has returned   *)
(* Ok, no interceptor later in the same list is invoked.                   *)
(***************************************************************************)
C2_ShortCircuit ==
    RanChain =>
        \A p \in 1..Len(last.log) :
            LET e == last.log[p]
            IN (/\ IsReturn(e, <<>>)
                /\ e.next = "Ok"
                /\ e.idx < Len(last.chain)
                /\ last.chain[e.idx].kind = "Directive"
                /\ ~NeedChain(last.chain[e.idx]))
               => ~InvokedLaterThan(last.log, p, <<>>, e.idx)

\* a directive that needs no chain, first of two, has returned Ok
C2_Witness ==
    /\ RanChain
    /\ Len(last.chain) = 2
    /\ last.chain[1].kind = "Directive" /\ ~NeedChain(last.chain[1])
    /\ \E p \in ReturnsOf(last.log, <<>>, 1) : last.log[p].next = "Ok"

(***************************************************************************)
(* C3: the first interceptor that needs the chain is given a continuation  *)
(* that, when called, resumes the chain at the next index; if it returns   *)
(* without calling it, no later interceptor is invoked and what it         *)
(* returned is the result of execute_chain.                                *)
(***************************************************************************)
C3_Continuation ==
    RanChain =>
        LET f == FirstNeedChain(last.chain)
            log == last.log
        IN \A p \in InvokesOf(log, <<>>, f) :
              /\ log[p].next = "real"
              /\ \A q \in 1..Len(log) :
                    (IsNext(log[q], <<>>) /\ log[q].idx = f /\ f < Len(last.chain))
                    => /\ q < Len(log)
                       /\ IsInvoke(log[q + 1], <<>>)
                       /\ log[q + 1].idx = f + 1
              /\ ~Delegated(log, <<>>, f)
                    => /\ ~InvokedLaterThan(log, p, <<>>, f)
                       /\ \A q \in ReturnsOf(log, <<>>, f) : last.r = log[q].prev

\* both cases: a first interceptor needing the chain called its continuation
\* with interceptors after it, and another returned without calling it
C3_WitnessResumed ==
    /\ RanChain
    /\ FirstNeedChain(last.chain) \in 1..(Len(last.chain) - 1)
    /\ Delegated(last.log, <<>>, FirstNeedChain(last.chain))
    /\ InvokesOf(last.log, <<>>, FirstNeedChain(last.chain) + 1) # {}

C3_WitnessReturned ==
    /\ RanChain
    /\ FirstNeedChain(last.chain) \in 2..(Len(last.chain) - 1)
    /\ ReturnsOf(last.log, <<>>, FirstNeedChain(last.chain)) # {}
    /\ ~Delegated(last.log, <<>>, FirstNeedChain(last.chain))
    /\ last.r.tag = "Ok"

(***************************************************************************)
(* C4: once the interceptor at index i has returned an error, no           *)
(* interceptor at an index above i is invoked, and execute_chain returns   *)
(* that error unless an interceptor before i that delegated through next   *)
(* replaces it.                                                            *)
(***************************************************************************)
\* an interceptor before index went on through its continuation and returns a
\* result of its own
ReplacedBefore(chain, log, index) ==
    \E k \in 1..(index - 1) :
        /\ \E q \in 1..Len(log) : IsNext(log[q], <<>>) /\ log[q].idx = k /\ log[q].next = "real"
        /\ chain[k].beh \notin {"next", "parallel"}

C4_ErrorStops ==
    RanChain =>
        \A p \in 1..Len(last.log) :
            LET e == last.log[p]
            IN (IsReturn(e, <<>>) /\ e.next = "Err")
               => /\ ~InvokedLaterThan(last.log, p, <<>>, e.idx)
                  /\ ~ReplacedBefore(last.chain, last.log, e.idx) => last.r = e.prev

\* an interceptor that is not the last returned an error of its own after an
\* earlier one ran, and the run returned it
C4_Witness ==
    /\ RanChain
    /\ Len(last.chain) = 3
    /\ last.chain[2].beh = "err"
    /\ \E p \in ReturnsOf(last.log, <<>>, 2) : last.log[p].next = "Err" /\ last.r = last.log[p].prev
    /\ ReturnsOf(last.log, <<>>, 1) # {}

\* an earlier interceptor that delegated replaced the error
C4_WitnessReplaced ==
    /\ RanChain
    /\ Len(last.chain) = 3
    /\ last.chain[1].beh = "next_replace" /\ Delegated(last.log, <<>>, 1)
    /\ \E p \in ReturnsOf(last.log, <<>>, 2) : last.log[p].next = "Err"
    /\ last.r.tag = "Ok"

(***************************************************************************)
(* SequentialExecutorInterceptor on its own: children, a parallelization   *)
(* kind and an earlier previous_result are drawn, then intercept runs.     *)
(***************************************************************************)
ChildSamples == {SequenceChainExecutor(<<e>>) : e \in CommandSamples}

KindSamples == {"Sequential", "Parallel"}

PreviousSamples == {NoResult, Ok(ExecutionResult(<<0>>, <<"earlier">>))}

InitSeq ==
    /\ interceptors = <<>>
    /\ configs = EmptyMap
    /\ user_overrides = EmptyMap
    /\ d_interceptors = EmptyMap
    /\ chain_cache = EmptyMap
    /\ nexec = 0
    /\ handlers = EmptyMap
    /\ registered = <<>>
    /\ \E children \in SeqsUpTo(ChildSamples, MaxChildren), kind \in KindSamples,
          previous \in PreviousSamples :
          last = [op |-> "children", children |-> children, kind |-> kind,
                  previous |-> previous]

\* SequentialExecutorInterceptor(children, "Block").intercept(context, ..)
RunSequential ==
    /\ last.op = "children"
    /\ LET st == SetPreviousResult(RunState(ModuleVariables, last.kind, [lock |-> "Hang"]),
                                   last.previous)
           o == ExecutorIntercept(SequentialExecutor(last.children, "Block"), <<>>, st)
       IN last' = [op |-> "sequential", children |-> last.children, kind |-> last.kind,
                   previous |-> last.previous, r |-> o.r, log |-> o.st.log]
    /\ UNCHANGED <<interceptors, configs, user_overrides, d_interceptors, chain_cache, nexec,
                   handlers, registered>>

NextSeq == RunSequential

SpecSeq == InitSeq /\ [][NextSeq]_vars

RanSequential == last.op = "sequential"

\* the indices of the children invoked, in the order of their invocation
RECURSIVE InvokedChildren(_, _)
InvokedChildren(log, q) ==
    IF q > Len(log) THEN <<>>
    ELSE (IF IsInvoke(log[q], <<>>) THEN <<log[q].idx>> ELSE <<>>) \o InvokedChildren(log, q + 1)

(***************************************************************************)
(* C5: a sequential executor with children c1..cn, n >= 1, invokes them    *)
(* one at a time in list order whatever the parallelization kind; when     *)
(* c(k+1) starts, the previous result of the context is the result of ck;  *)
(* if ck fails the later ones are not invoked and the error is returned;   *)
(* if all succeed the result is that of cn.                                *)
(***************************************************************************)
C5_Sequential ==
    (RanSequential /\ Len(last.children) >= 1) =>
        LET log == last.log
            n == Len(last.children)
            order == InvokedChildren(log, 1)
        IN /\ Len(order) \in 1..n
           /\ \A k \in 1..Len(order) : order[k] = k
           \* one at a time: a child is invoked only after the one before returned
           /\ \A k \in 1..(Len(order) - 1) :
                 \E q \in ReturnsOf(log, <<>>, k) :
                    /\ log[q].next = "Ok"
                    /\ \A p \in InvokesOf(log, <<>>, k + 1) : q < p /\ log[p].prev = log[q].prev
           /\ \A k \in 1..n : \A q \in ReturnsOf(log, <<>>, k) :
                 log[q].next = "Err" => (Len(order) = k /\ last.r = log[q].prev)
           /\ (\A k \in 1..n : \E q \in ReturnsOf(log, <<>>, k) : log[q].next = "Ok")
                 => \E q \in ReturnsOf(log, <<>>, n) : last.r = log[q].prev

\* three children ran to the end under the parallel kind
C5_WitnessAll ==
    /\ RanSequential
    /\ last.kind = "Parallel"
    /\ Len(last.children) = 3
    /\ InvokedChildren(last.log, 1) = <<1, 2, 3>>
    /\ last.r.tag = "Ok"

\* the second of three children failed
C5_WitnessFailed ==
    /\ RanSequential
    /\ Len(last.children) = 3
    /\ InvokedChildren(last.log, 1) = <<1, 2>>
    /\ last.r.tag = "Err"

(***************************************************************************)
(* The two register operations at the edges of the bands.                  *)
(***************************************************************************)
PrioritySamples ==
    {-1, 0, 499, 500, 999, 1000, 2999, 3000, 4000, 4999, 5000, 6000, 6999, 7000,
     7999, 8000, 8999, 9000, 9999, 10000}

NextBands ==
    \/ \E p \in PrioritySamples :
          RegisterGlobal(GlobalInterceptor("g", GlobalInterceptorConfig(TRUE, p, <<>>, TRUE),
                                           TRUE, "next"), 1)
             /\ UNCHANGED <<nexec, handlers>>
    \/ \E p \in PrioritySamples :
          RegisterDirective(DirectiveInterceptor("d", p, TRUE, "next"))
             /\ UNCHANGED <<nexec, handlers, registered>>

SpecBands == Init /\ [][NextBands]_vars

(***************************************************************************)
(* C10: register on the global manager succeeds exactly when the default   *)
(* priority lies in CRITICAL_SYSTEM (9000..10000), GLOBAL_HIGH             *)
(* (8000..9000), GLOBAL_NORMAL (5000..7000), GLOBAL_SUPPORT (1000..3000)   *)
(* or MONITORING (0..500); register on the directive manager exactly when  *)
(* the priority lies in DIRECTIVE_HIGH (7000..8000), DIRECTIVE_NORMAL      *)
(* (3000..5000) or DIRECTIVE_SUPPORT (500..1000), each band holding its    *)
(* lower end and not its upper end; a global interceptor at 4000 and a     *)
(* directive interceptor at 6000 are rejected; no priority is accepted by  *)
(* both managers.                                                          *)
(***************************************************************************)
InGlobalBand(p) ==
    \/ 9000 <= p /\ p < 10000
    \/ 8000 <= p /\ p < 9000
    \/ 5000 <= p /\ p < 7000
    \/ 1000 <= p /\ p < 3000
    \/ 0 <= p /\ p < 500

InDirectiveBand(p) ==
    \/ 7000 <= p /\ p < 8000
    \/ 3000 <= p /\ p < 5000
    \/ 500 <= p /\ p < 1000

C10_Bands ==
    /\ last.op = "register_global" =>
          /\ last.ok <=> InGlobalBand(last.priority)
          /\ last.ok => /\ last.name \in Names(interceptors)
                        /\ configs[last.name].priority = last.priority
          /\ last.priority = 4000 => ~last.ok
    /\ last.op = "register_directive" =>
          /\ last.ok <=> InDirectiveBand(last.priority)
          /\ last.ok => d_interceptors[last.name].priority = last.priority
          /\ last.priority = 6000 => ~last.ok
    /\ \A g \in DOMAIN configs, d \in DOMAIN d_interceptors :
          configs[g].priority # d_interceptors[d].priority

\* a global interceptor was accepted at the top of its highest band while a
\* directive interceptor registered at 500 is held
C10_Witness ==
    /\ last.op = "register_global" /\ last.ok /\ last.priority = 9999
    /\ "d" \in DOMAIN d_interceptors /\ d_interceptors["d"].priority = 500

\* a registration at the upper end of a band was rejected
C10_WitnessRejected ==
    /\ last.op = "register_global" /\ ~last.ok /\ last.priority = 10000
    /\ "g" \in DOMAIN configs

(***************************************************************************)
(* Chain building on its own: the managers are set up by any sequence of   *)
(* register, configure and override, then the chain of a definition is     *)
(* built as execute() builds it.                                           *)
(***************************************************************************)
Audit == GlobalInterceptor("audit", GlobalInterceptorConfig(TRUE, 9500, <<>>, FALSE), TRUE, "next")

BuildGlobals == {Audit, Guard, Stray}

BuildDirectives ==
    { DirectiveInterceptor("parallel", 4000, TRUE, "parallel"),
      DirectiveInterceptor("log", 700, TRUE, "next"),
      DirectiveInterceptor("trace", 700, TRUE, "next"),
      DirectiveInterceptor("if", 100, FALSE, "ok") }

BuildConfigs ==
    { GlobalInterceptorConfig(TRUE, 9500, <<>>, TRUE),
      GlobalInterceptorConfig(TRUE, 4000, <<>>, TRUE) }

BuildNames == {"audit", "guard"}

BuildDefs == {"hello", "release", "nightly", "ci"}

\* execute() up to the chain it builds: the definition, the context, the
\* active globals, build_target_chain
Build(def_name, env_vars) ==
    LET definition == FindDefinition(def_name)
        context == ExecutionContext(ModuleVariables, env_vars, ScopeOf(definition))
        global == GetActive(interceptors, configs, user_overrides, context)
    IN /\ \E flip \in BOOLEAN :
             last' = [op |-> "build", def |-> def_name, env |-> env_vars, global |-> global,
                      r |-> BuildTargetChain(d_interceptors, context, ActivityOf(definition),
                                             global, <<>>, flip)]
       /\ UNCHANGED <<interceptors, configs, user_overrides, d_interceptors, chain_cache>>

NextBuild ==
    \/ \E o \in BuildGlobals, k \in 1..2 : RegisterGlobal(o, k) /\ UNCHANGED <<nexec, handlers>>
    \/ \E o \in BuildDirectives : RegisterDirective(o) /\ UNCHANGED <<nexec, handlers, registered>>
    \/ \E name \in BuildNames, config \in BuildConfigs :
          ConfigureGlobal(name, config) /\ UNCHANGED <<nexec, handlers, registered>>
    \/ \E name \in BuildNames, enabled \in BOOLEAN :
          OverrideGlobal(name, enabled) /\ UNCHANGED <<nexec, handlers, registered>>
    \/ \E def_name \in BuildDefs, env_vars \in EnvCatalogue :
          Build(def_name, env_vars) /\ UNCHANGED <<nexec, handlers, registered>>

SpecBuild == Init /\ [][NextBuild]_vars

Built == last.op = "build" /\ last.r.tag = "Ok"

RECURSIVE AllChains(_)
\* a chain and the chains of the nodes below it, which its executor holds
AllChains(chain) ==
    {chain} \cup
    (IF chain = <<>> THEN {}
     ELSE LET t == chain[Len(chain)]
          IN IF t.exec \in {"Sequential", "Definition"}
             THEN UNION {AllChains(t.children[i].children) : i \in 1..Len(t.children)}
             ELSE {})

\* the last element is an executor, no other is, and the others are in
\* non-increasing priority order
EndsInExecutor(chain) ==
    /\ chain # <<>>
    /\ chain[Len(chain)].kind = "Executor"

SortedBeforeExecutor(chain) ==
    /\ \A i \in 1..(Len(chain) - 1) : chain[i].kind # "Executor"
    /\ \A i \in 1..(Len(chain) - 2) : Priority(chain[i]) >= Priority(chain[i + 1])

RanExecute == last.op = "execute"

\* the run asked for the write lock while it held a read guard of its own
WroteUnderReadGuard(log) ==
    \E q \in 1..Len(log) : log[q].ev = "write" /\ log[q].next = "read guard held"

(***************************************************************************)
(* C6: during one execute() the lock of the context is never requested in  *)
(* write mode while the requesting flow holds a read guard, so no run      *)
(* blocks forever, and binding one or more matching arguments at the       *)
(* entry of a definition always completes.                                 *)
(***************************************************************************)
C6_NoWriteUnderRead ==
    RanExecute => /\ ~WroteUnderReadGuard(last.log)
                  /\ last.r.tag # "Hang"

\* a definition entered with an argument that names one of its parameters
C6_Witness ==
    /\ RanExecute
    /\ last.def = "deploy"
    /\ Len(last.args) = 1 /\ last.args[1].name = "env"
    /\ last.ran

(***************************************************************************)
(* C7: the chain every execute(registry, d, args) runs, also after an      *)
(* earlier execute of d with as many arguments but other values or         *)
(* another context, is a chain build_target_chain produces for this call:  *)
(* the arguments bound are those of this call and the globals those        *)
(* active for the context of this call.                                    *)
(***************************************************************************)
C7_RunsFreshChain ==
    (RanExecute /\ last.ran) => Ok(last.chain) \in last.fresh

\* a second execute of a definition, answered by the cache
C7_Witness ==
    /\ RanExecute
    /\ last.ran /\ last.hit
    /\ nexec = 2

(***************************************************************************)
(* C8: no input reachable through execute() aborts the process: a command  *)
(* part that evaluates to a value that is no literal, a definition         *)
(* executor whose name is not in the registry and a typed parameter whose  *)
(* type names no known enum all yield errors, not panics.                  *)
(***************************************************************************)
C8_NoPanic ==
    RanExecute => last.r.tag # "Panic"

\* a command part evaluated to Empty
C8_Witness ==
    /\ RanExecute
    /\ last.def = "broken"
    /\ last.ran
    /\ \E q \in 1..Len(last.log) : last.log[q].ev = "invoke" /\ last.log[q].list = <<1, 1>>

(***************************************************************************)
(* C9: execute() with a name the registry does not hold returns an error   *)
(* of kind DefinitionNotFound listing the known names; it builds no        *)
(* chain, invokes no interceptor and adds nothing to the cache.            *)
(***************************************************************************)
C9_DefinitionNotFound ==
    (RanExecute /\ ~HasDefinition(last.def)) =>
        /\ last.r.tag = "Err"
        /\ last.r.val.kind = "DefinitionNotFound"
        /\ ~last.built /\ ~last.ran /\ ~last.cached
        /\ last.log = <<>>

\* an unknown name was executed while the cache held a chain
C9_Witness ==
    /\ RanExecute
    /\ last.def = "missing"
    /\ chain_cache # EmptyMap

(***************************************************************************)
(* Activation on its own: the global manager is set up by any sequence of  *)
(* register, configure and override, then execute() is followed up to the  *)
(* call of get_active: the definition, its scope, the context.             *)
(***************************************************************************)
JobsOnly ==
    GlobalInterceptor("jobs", GlobalInterceptorConfig(TRUE, 2000, <<TargetType({"job"})>>, TRUE),
                      TRUE, "next")

PipelinesOnly ==
    GlobalInterceptor("pipelines",
                      GlobalInterceptorConfig(TRUE, 100, <<TargetType({"pipeline"})>>, TRUE),
                      TRUE, "next")

ActiveGlobals == {Guard, JobsOnly, PipelinesOnly}

ActiveConfigs ==
    { GlobalInterceptorConfig(TRUE, 6000, <<>>, FALSE),
      GlobalInterceptorConfig(FALSE, 8500,
          <<Environment({"production", "staging"}), TargetType({"command"})>>, TRUE) }

ActiveNames == {"guard", "ghost"}

ActiveDefs == {"hello", "nightly", "ci"}

ActiveEnvs ==
    { EmptyMap,
      [LOOM_ENV |-> "production"],
      [ENVIRONMENT |-> "production"],
      [LOOM_ENV |-> "staging", ENVIRONMENT |-> "production"] }

\* execute() from find_definition to get_active
ActiveFor(def_name, env_vars) ==
    /\ HasDefinition(def_name)
    /\ LET definition == FindDefinition(def_name)
           context == ExecutionContext(ModuleVariables, env_vars, ScopeOf(definition))
       IN last' = [op |-> "get_active", def |-> def_name, context |-> context,
                   active |-> GetActive(interceptors, configs, user_overrides, context)]
    /\ UNCHANGED <<interceptors, configs, user_overrides, d_interceptors, chain_cache>>

NextActive ==
    \/ \E o \in ActiveGlobals, k \in 1..2 : RegisterGlobal(o, k) /\ UNCHANGED <<nexec, handlers>>
    \/ \E name \in ActiveNames, config \in ActiveConfigs :
          ConfigureGlobal(name, config) /\ UNCHANGED <<nexec, handlers, registered>>
    \/ \E name \in ActiveNames, enabled \in BOOLEAN :
          OverrideGlobal(name, enabled) /\ UNCHANGED <<nexec, handlers, registered>>
    \/ \E def_name \in ActiveDefs, env_vars \in ActiveEnvs :
          ActiveFor(def_name, env_vars) /\ UNCHANGED <<nexec, handlers, registered>>

SpecActive == Init /\ [][NextActive]_vars

AskedActive == last.op = "get_active"

ActiveNamesOf(active) == {active[i].name : i \in 1..Len(active)}

\* the environment a context resolves to: LOOM_ENV, else ENVIRONMENT, else
\* "development"
ResolvedEnvironment(context) ==
    IF "LOOM_ENV" \in DOMAIN context.env_vars THEN context.env_vars["LOOM_ENV"]
    ELSE IF "ENVIRONMENT" \in DOMAIN context.env_vars THEN context.env_vars["ENVIRONMENT"]
    ELSE "development"

\* the word TargetType conditions name the scope of a context by
TargetWord(context) ==
    CASE context.scope = "Command" -> "command"
      [] context.scope = "Pipeline" -> "pipeline"
      [] context.scope = "Job" -> "job"
      [] OTHER -> "other"

\* a condition of the two kinds the interceptors here carry holds in a context
Holds(condition, context) ==
    IF condition.c = "Environment" THEN ResolvedEnvironment(context) \in condition.vals
    ELSE TargetWord(context) \in condition.vals

\* the enabled flag of the effective configuration: that of the stored
\* configuration, replaced by the stored user override when there is one
EffectiveEnabled(name) ==
    IF name \in DOMAIN user_overrides THEN user_overrides[name] ELSE configs[name].enabled

(***************************************************************************)
(* C11: get_active(context) returns exactly the registered global          *)
(* interceptors whose effective configuration is enabled and all of whose  *)
(* activation conditions hold in the context, each once; an                *)
(* Environment(E) condition holds iff E contains the value of LOOM_ENV,    *)
(* else of ENVIRONMENT, else "development", so an interceptor with         *)
(* Environment({"production"}) is absent when neither variable is set and  *)
(* present when the environment resolves to "production".                  *)
(***************************************************************************)
C11_ActiveExactly ==
    AskedActive =>
        /\ Cardinality(ActiveNamesOf(last.active)) = Len(last.active)
        /\ ActiveNamesOf(last.active) =
              { n \in Names(interceptors) :
                   /\ EffectiveEnabled(n)
                   /\ \A i \in 1..Len(configs[n].conditions) :
                         Holds(configs[n].conditions[i], last.context) }
        /\ ("guard" \in Names(interceptors) /\ configs["guard"] = Guard.default_config
               /\ "guard" \notin DOMAIN user_overrides)
              => ("guard" \in ActiveNamesOf(last.active)
                     <=> ResolvedEnvironment(last.context) = "production")

\* the guard is absent with neither variable set
C11_Witness ==
    /\ AskedActive
    /\ "guard" \in Names(interceptors) /\ configs["guard"] = Guard.default_config
    /\ "guard" \notin DOMAIN user_overrides
    /\ last.context.env_vars = EmptyMap
    /\ "guard" \notin ActiveNamesOf(last.active)
    /\ Len(last.active) >= 1

\* the guard is present through ENVIRONMENT alone
C11_WitnessPresent ==
    /\ AskedActive
    /\ "guard" \in Names(interceptors) /\ configs["guard"] = Guard.default_config
    /\ last.context.env_vars = [ENVIRONMENT |-> "production"]
    /\ "guard" \in ActiveNamesOf(last.active)

\* LOOM_ENV wins over ENVIRONMENT
C11_WitnessShadowed ==
    /\ AskedActive
    /\ "guard" \in Names(interceptors) /\ configs["guard"] = Guard.default_config
    /\ "guard" \notin DOMAIN user_overrides
    /\ "LOOM_ENV" \in DOMAIN last.context.env_vars
    /\ "ENVIRONMENT" \in DOMAIN last.context.env_vars
    /\ "guard" \notin ActiveNamesOf(last.active)

(***************************************************************************)
(* C12: after any sequence of register, configure and set_user_override    *)
(* calls, get_active applies a stored user override to the enabled flag of *)
(* an interceptor only if the current configuration of that interceptor    *)
(* is user_overridable; set_user_override on an interceptor that is        *)
(* unknown or not overridable fails and stores nothing.                    *)
(***************************************************************************)
C12_OverrideOnlyIfOverridable ==
    /\ AskedActive =>
          \A n \in Names(interceptors) :
              ~configs[n].user_overridable =>
                  (n \in ActiveNamesOf(last.active)
                      <=> /\ configs[n].enabled
                          /\ \A i \in 1..Len(configs[n].conditions) :
                                Holds(configs[n].conditions[i], last.context))
    /\ (last.op = "override_global"
           /\ (last.name \notin DOMAIN configs \/ ~configs[last.name].user_overridable))
          => /\ ~last.ok
             /\ last.name \notin DOMAIN configs => last.name \notin DOMAIN user_overrides

\* an override stored while the interceptor was overridable is still held
\* after a configuration that is not overridable replaced the first
C12_Witness ==
    /\ AskedActive
    /\ "guard" \in DOMAIN user_overrides /\ ~user_overrides["guard"]
    /\ "guard" \in DOMAIN configs
    /\ ~configs["guard"].user_overridable /\ configs["guard"].enabled
    /\ last.context.env_vars = EmptyMap

\* an override of an interceptor that is not overridable was refused
C12_WitnessRefused ==
    /\ last.op = "override_global" /\ ~last.ok
    /\ last.name = "guard" /\ "guard" \in DOMAIN configs
    /\ "guard" \notin DOMAIN user_overrides

(***************************************************************************)
(* C20: for execute() on a definition the scope TargetType conditions are  *)
(* evaluated in corresponds to the kind of the definition: a global        *)
(* interceptor with TargetType({"job"}) is active when a Job definition is *)
(* executed, one with TargetType({"pipeline"}) when a Pipeline definition  *)
(* is executed, and neither is active when a Recipe is executed.           *)
(***************************************************************************)
C20_ScopeFollowsKind ==
    AskedActive =>
        LET kind == FindDefinition(last.def).kind
        IN /\ ("jobs" \in Names(interceptors) /\ EffectiveEnabled("jobs")) =>
                 ("jobs" \in ActiveNamesOf(last.active) <=> kind = "Job")
           /\ ("pipelines" \in Names(interceptors) /\ EffectiveEnabled("pipelines")) =>
                 ("pipelines" \in ActiveNamesOf(last.active) <=> kind = "Pipeline")

\* a Job definition was executed with the interceptor for jobs registered
C20_Witness ==
    /\ AskedActive
    /\ FindDefinition(last.def).kind = "Job"
    /\ "jobs" \in Names(interceptors)
    /\ "pipelines" \in Names(interceptors)

(***************************************************************************)
(* The order of a built chain: globals of equal priority and globals at    *)
(* the edges of the directive bands are registered in any order, moved by  *)
(* configure, then the chain of a definition with directives is built,     *)
(* once or twice.                                                          *)
(***************************************************************************)
Watch == GlobalInterceptor("watch", GlobalInterceptorConfig(TRUE, 9500, <<>>, FALSE), TRUE, "next")

Meter == GlobalInterceptor("meter", GlobalInterceptorConfig(TRUE, 499, <<>>, TRUE), TRUE, "next")

OrderGlobals == {Audit, Watch, Meter}

OrderConfigs ==
    { GlobalInterceptorConfig(TRUE, 8000, <<>>, TRUE),
      GlobalInterceptorConfig(TRUE, 0, <<>>, TRUE) }

OrderDirectives ==
    { DirectiveInterceptor("log", 500, TRUE, "next"),
      DirectiveInterceptor("trace", 7999, TRUE, "next"),
      DirectiveInterceptor("trace", 8000, TRUE, "next") }

OrderArgs ==
    { <<InputArg("env", LitExpr("string", "prod"))>>,
      <<InputArg("env", LitExpr("string", "dev"))>> }

\* the choice sort_unstable_by makes among equal elements when it is given
\* the same input again, reversed
OtherChoiceAgain(flip) == ~flip

\* the choice sort_unstable_by makes among equal elements when it is given
\* the same input again: the sort is a function of its input
SameChoiceAgain(flip) == flip

\* build_target_chain called twice with nothing in between, as two execute()
\* calls for one cache key build when the cache does not answer
BuildTwice(def_name, args, args_again, env_vars) ==
    LET definition == FindDefinition(def_name)
        context == ExecutionContext(ModuleVariables, env_vars, ScopeOf(definition))
        global == GetActive(interceptors, configs, user_overrides, context)
    IN /\ Len(args) = Len(args_again)
       /\ \E flip \in BOOLEAN :
             last' = [op |-> "build_twice", def |-> def_name, env |-> env_vars,
                      global |-> global,
                      r |-> BuildTargetChain(d_interceptors, context, ActivityOf(definition),
                                             global, args, flip),
                      again |-> BuildTargetChain(d_interceptors, context,
                                                 ActivityOf(definition), global, args_again,
                                                 SameChoiceAgain(flip))]
       /\ UNCHANGED <<interceptors, configs, user_overrides, d_interceptors, chain_cache>>

NextOrder ==
    \/ \E o \in OrderGlobals, k \in 1..3 : RegisterGlobal(o, k) /\ UNCHANGED <<nexec, handlers>>
    \/ \E o \in OrderDirectives :
          RegisterDirective(o) /\ UNCHANGED <<nexec, handlers, registered>>
    \/ \E config \in OrderConfigs :
          ConfigureGlobal("meter", config) /\ UNCHANGED <<nexec, handlers, registered>>
    \/ Build("tagged", EmptyMap) /\ UNCHANGED <<nexec, handlers, registered>>
    \/ \E args \in OrderArgs, args_again \in OrderArgs :
          BuildTwice("tagged", args, args_again, EmptyMap)
             /\ UNCHANGED <<nexec, handlers, registered>>

SpecOrder == Init /\ [][NextOrder]_vars

BuiltTwice == last.op = "build_twice" /\ last.r.tag = "Ok"

RECURSIVE Skeleton(_)
\* the name, kind and priority at every position of a chain, and the same of
\* the chains embedded in its executors
Skeleton(chain) ==
    [i \in 1..Len(chain) |->
        [name |-> chain[i].name, kind |-> chain[i].kind, priority |-> Priority(chain[i]),
         children |-> IF chain[i].kind = "Executor" THEN Skeleton(chain[i].children)
                      ELSE <<>>]]

\* the place of a name in the order of registration, 0 when it is not there
PlaceOf(names, name) ==
    LET m == {i \in 1..Len(names) : names[i] = name}
    IN IF m = {} THEN 0 ELSE CHOOSE i \in m : TRUE

C14_RegistrationOrder ==
    Built =>
        \A chain \in AllChains(last.r.val) :
            \A i, j \in 1..Len(chain) :
                (/\ i < j
                 /\ chain[i].kind = "Global" /\ chain[j].kind = "Global"
                 /\ Priority(chain[i]) = Priority(chain[j]))
                => PlaceOf(registered, chain[i].name) < PlaceOf(registered, chain[j].name)

\* two globals registered at 9500, audit first, are in a built chain
C14_Witness ==
    /\ Built
    /\ PlaceOf(registered, "audit") = 1 /\ PlaceOf(registered, "watch") = 2
    /\ {"audit", "watch"} \subseteq ActiveNamesOf(last.global)
    /\ configs["audit"].priority = configs["watch"].priority

(***************************************************************************)
(* C15: after any sequence of successful register and configure calls, in  *)
(* every built chain each global interceptor with a priority in the        *)
(* MONITORING band (0..500) stands after every directive interceptor and   *)
(* each global interceptor with a priority of 8000 or more stands before   *)
(* every directive interceptor.                                            *)
(***************************************************************************)
C15_BandsOrder ==
    Built =>
        \A chain \in AllChains(last.r.val) :
            \A i, j \in 1..Len(chain) :
                (chain[i].kind = "Global" /\ chain[j].kind = "Directive")
                => /\ (0 <= Priority(chain[i]) /\ Priority(chain[i]) < 500) => j < i
                   /\ Priority(chain[i]) >= 8000 => i < j

\* a global at 499 with a directive at 500, and a global at 9500 with a
\* directive at 7999, in one chain
C15_Witness ==
    /\ Built
    /\ \E i, j \in 1..Len(last.r.val) :
          /\ last.r.val[i].kind = "Global" /\ Priority(last.r.val[i]) = 499
          /\ last.r.val[j].kind = "Directive" /\ Priority(last.r.val[j]) = 500
    /\ \E i, j \in 1..Len(last.r.val) :
          /\ last.r.val[i].kind = "Global" /\ Priority(last.r.val[i]) = 9500
          /\ last.r.val[j].kind = "Directive" /\ Priority(last.r.val[j]) = 7999

\* a global moved to 8000 by configure, with a directive at 7999
C15_WitnessConfigured ==
    /\ Built
    /\ \E i, j \in 1..Len(last.r.val) :
          /\ last.r.val[i].kind = "Global" /\ Priority(last.r.val[i]) = 8000
          /\ last.r.val[j].kind = "Directive" /\ Priority(last.r.val[j]) = 7999

(***************************************************************************)
(* The error a failed run returns.                                         *)
(***************************************************************************)
RECURSIVE ExecutedBefore(_, _, _, _)
\* the names of the interceptors of the chain invoked before position p of
\* the log, but for the one at index, in the order of their invocation
ExecutedBefore(chain, log, p, index) ==
    IF p <= 1 THEN <<>>
    ELSE ExecutedBefore(chain, log, p - 1, index) \o
         (IF IsInvoke(log[p - 1], <<>>) /\ log[p - 1].idx # index
          THEN <<chain[log[p - 1].idx].name>> ELSE <<>>)

\* the position of the log where an interceptor of the chain first returned
\* an error, 0 when none did
FirstFailure(log) ==
    LET m == {p \in 1..Len(log) : IsReturn(log[p], <<>>) /\ log[p].next = "Err"}
    IN IF m = {} THEN 0 ELSE CHOOSE p \in m : \A q \in m : p <= q

(***************************************************************************)
(* C16: when an interceptor of a chain fails after k interceptors of the   *)
(* same run have been executed, the error returned to the caller carries   *)
(* in its interceptor stack the names of those k interceptors, in the      *)
(* order of their execution.                                               *)
(***************************************************************************)
C16_ErrorStack ==
    (RanChain /\ last.r.tag = "Err" /\ FirstFailure(last.log) # 0) =>
        LET p == FirstFailure(last.log)
        IN last.r.val.stack = ExecutedBefore(last.chain, last.log, p, last.log[p].idx)

\* the executor failed after two interceptors were executed
C16_Witness ==
    /\ RanChain
    /\ Len(last.chain) = 3
    /\ last.r.tag = "Err"
    /\ FirstFailure(last.log) # 0
    /\ last.log[FirstFailure(last.log)].idx = 3
    /\ Len(ExecutedBefore(last.chain, last.log, FirstFailure(last.log), 3)) = 2

(***************************************************************************)
(* The definition executor at the end of the chain execute() ran.          *)
(***************************************************************************)
\* execute() ran a chain that ends in a definition executor, and the run
\* reached it
EnteredDefinition ==
    /\ RanExecute /\ last.ran
    /\ last.chain # <<>>
    /\ last.chain[Len(last.chain)].exec = "Definition"
    /\ InvokesOf(last.log, <<>>, Len(last.chain)) # {}

\* the arguments given to the executor e that name a parameter of its
\* definition, as indices
MatchingArgs(e) ==
    {i \in 1..Len(e.args) :
        FindParameter(FindDefinition(e.parts[1]).parameters, e.args[i].name) # 0}

\* the value argument i of the executor e evaluates to under the variables
\* the run started with
BoundValue(e, i) ==
    LET parameters == FindDefinition(e.parts[1]).parameters
    IN ValueFromArg(parameters[FindParameter(parameters, e.args[i].name)],
                    e.args[i].value, ModuleVariables)

\* the positions of the log where an interceptor of the body of the executor
\* at index n is invoked
BodyInvokes(log, n) == {q \in 1..Len(log) : IsInvoke(log[q], <<n>>)}

C17_WitnessFailed ==
    /\ EnteredDefinition
    /\ \E i \in MatchingArgs(last.chain[Len(last.chain)]) :
          BoundValue(last.chain[Len(last.chain)], i).tag = "Err"
    /\ last.r.tag = "Err"

(***************************************************************************)
(* A call statement on its own: a callee and positional arguments are      *)
(* drawn, then the chain of the statement is built.                        *)
(***************************************************************************)
ExprSamples == {LitExpr("string", "prod"), LitExpr("number", "3"), VarExpr("greeting")}

CalleeSamples == {"hello", "tagged", "deploy", "nightly", "missing"}

\* the directive manager after log and trace were registered
InitCall ==
    /\ interceptors = <<>>
    /\ configs = EmptyMap
    /\ user_overrides = EmptyMap
    /\ d_interceptors = [log |-> DirectiveInterceptor("log", 500, TRUE, "next"),
                         trace |-> DirectiveInterceptor("trace", 7999, TRUE, "next")]
    /\ chain_cache = EmptyMap
    /\ nexec = 0
    /\ handlers = EmptyMap
    /\ registered = <<>>
    /\ \E name \in CalleeSamples, args \in SeqsUpTo(ExprSamples, MaxArgs) :
          last = [op |-> "call", stmt |-> CallStmt(name, args)]

\* build_target_chain on ExecutionActivity::Command(Statement::Call {..})
BuildCall ==
    /\ last.op = "call"
    /\ \E flip \in BOOLEAN :
          last' = [op |-> "build_call", stmt |-> last.stmt,
                   r |-> BuildTargetChain(d_interceptors,
                             ExecutionContext(ModuleVariables, EmptyMap, "Command"),
                             CommandActivity(last.stmt), <<>>, <<>>, flip)]
    /\ UNCHANGED <<interceptors, configs, user_overrides, d_interceptors, chain_cache, nexec,
                   handlers, registered>>

NextCall == BuildCall

SpecCall == InitCall /\ [][NextCall]_vars

BuiltCall == last.op = "build_call"

(***************************************************************************)
(* C18: for a call statement with n positional arguments to a callee with  *)
(* m parameters: if n > m, chain building fails with an error and no       *)
(* chain is produced; otherwise for each i < n the i-th argument           *)
(* expression is bound to the name of the i-th parameter, in order, and    *)
(* exactly n arguments are bound.                                          *)
(***************************************************************************)
C18_PositionalBinding ==
    (BuiltCall /\ HasDefinition(last.stmt.name)) =>
        LET callee == FindDefinition(last.stmt.name)
            n == Len(last.stmt.args)
            m == Len(callee.parameters)
        IN IF n > m THEN last.r.tag = "Err"
           ELSE /\ last.r.tag = "Ok"
                /\ callee.kind = "Recipe" =>
                      LET bound == last.r.val[Len(last.r.val)].args
                      IN /\ last.r.val[Len(last.r.val)].exec = "Definition"
                         /\ last.r.val[Len(last.r.val)].parts = <<callee.name>>
                         /\ Len(bound) = n
                         /\ \A i \in 1..n :
                               /\ bound[i].name = callee.parameters[i].name
                               /\ bound[i].value = last.stmt.args[i]

\* one argument bound to the first of two parameters
C18_Witness ==
    /\ BuiltCall
    /\ last.stmt.name = "deploy"
    /\ Len(last.stmt.args) = 1
    /\ last.r.tag = "Ok"
    /\ last.r.val[Len(last.r.val)].args[1].name = "env"

\* more arguments than parameters
C18_WitnessTooMany ==
    /\ BuiltCall
    /\ last.stmt.name = "tagged"
    /\ Len(last.stmt.args) = 2
    /\ last.r.tag = "Err"

(***************************************************************************)
(* interceptor/hook: the hook registry.  A handler is what hook_type(),    *)
(* priority() and handle() give; a handler registered twice is two         *)
(* entries of the list of its hook type.                                   *)
(***************************************************************************)
Continue == [t |-> "Continue", changes |-> EmptyMap, max_attempts |-> 0, reason |-> ""]

ModifyContext(changes) ==
    [t |-> "ModifyContext", changes |-> changes, max_attempts |-> 0, reason |-> ""]

BlockHook(reason) == [t |-> "Block", changes |-> EmptyMap, max_attempts |-> 0, reason |-> reason]

Retry(max_attempts) ==
    [t |-> "Retry", changes |-> EmptyMap, max_attempts |-> max_attempts, reason |-> ""]

HookHandler(name, hook_type, priority, result) ==
    [name |-> name, hook_type |-> hook_type, priority |-> priority, result |-> result]

\* an entry of the registry: the handler, stamped with the number of the
\* register_hook call that pushed it
Registration(handler, seq) ==
    [name |-> handler.name, hook_type |-> handler.hook_type, priority |-> handler.priority,
     result |-> handler.result, seq |-> seq]

\* the loop state of execute_hooks: the metadata of the context, the entries
\* handled so far and the result once the loop is left
HookRun(metadata, calls, r) == [metadata |-> metadata, calls |-> calls, r |-> r]

\* a ModifyContext arm that drops the changes
InsertNone(metadata, changes, keys) == metadata

RECURSIVE InsertAll(_, _, _)
\* for (key, value) in changes { context.metadata.insert(key, value) }
InsertAll(metadata, changes, keys) ==
    IF keys = {} THEN metadata
    ELSE LET k == CHOOSE x \in keys : TRUE
         IN InsertAll(Put(metadata, k, changes[k]), changes, keys \ {k})

\* a Retry arm that handles the entry a second time
RetryOnce(run, i, max_attempts) ==
    [run EXCEPT !.metadata = Put(@, "retry_max", ToString(max_attempts)),
                !.calls = Append(@, i)]

\* the HookResult::Retry arm: retry_max is put in the metadata, nothing else
RecordRetry(run, i, max_attempts) ==
    [run EXCEPT !.metadata = Put(@, "retry_max", ToString(max_attempts))]

RECURSIVE ExecuteHooksFrom(_, _, _)
\* HookRegistry::execute_hooks: the loop over the handlers of the hook type,
\* from entry i on
ExecuteHooksFrom(list, i, run) ==
    IF i > Len(list) THEN [run EXCEPT !.r = Ok(<<>>)]
    ELSE LET handled == [run EXCEPT !.calls = Append(@, i)]
             result == list[i].result
         IN CASE result.t = "Continue" -> ExecuteHooksFrom(list, i + 1, handled)
              [] result.t = "ModifyContext" ->
                     ExecuteHooksFrom(list, i + 1,
                         [handled EXCEPT !.metadata =
                             InsertAll(@, result.changes, DOMAIN result.changes)])
              [] result.t = "Block" ->
                     [handled EXCEPT !.r = Err(result.reason)]
              [] OTHER ->
                     ExecuteHooksFrom(list, i + 1, RecordRetry(handled, i, result.max_attempts))

HandlersOf(hook_type) == IF hook_type \in DOMAIN handlers THEN handlers[hook_type] ELSE <<>>

RegisteredHandlers ==
    LET types == DOMAIN handlers
    IN IF types = {} THEN 0
       ELSE (IF "PreCommand" \in types THEN Len(handlers["PreCommand"]) ELSE 0)
            + (IF "OnError" \in types THEN Len(handlers["OnError"]) ELSE 0)

\* HookRegistry::register_hook: push, then a stable sort by descending priority
RegisterHook(handler) ==
    /\ RegisteredHandlers < MaxHandlers
    /\ handlers' = Put(handlers, handler.hook_type,
                       SortBy(Append(HandlersOf(handler.hook_type),
                                     Registration(handler, RegisteredHandlers + 1))))
    /\ last' = [op |-> "register_hook", name |-> handler.name]
    /\ UNCHANGED <<interceptors, configs, user_overrides, d_interceptors, chain_cache, nexec,
                   registered>>

\* HookRegistry::execute_hooks(hook_type, context, payload)
ExecuteHooks(hook_type, metadata) ==
    /\ LET run == ExecuteHooksFrom(HandlersOf(hook_type), 1, HookRun(metadata, <<>>, NoResult))
       IN last' = [op |-> "execute_hooks", hook_type |-> hook_type, before |-> metadata,
                   r |-> run.r, calls |-> run.calls, metadata |-> run.metadata,
                   handled |-> [q \in 1..Len(run.calls) |->
                                   HandlersOf(hook_type)[run.calls[q]]]]
    /\ UNCHANGED <<interceptors, configs, user_overrides, d_interceptors, chain_cache, nexec,
                   handlers, registered>>

(***************************************************************************)
(* Runs of a chain and of the hooks side by side: a chain is drawn and     *)
(* run; handlers are registered and the hooks of a type executed.          *)
(***************************************************************************)
HookTypes == {"PreCommand", "OnError"}

HookCatalogue ==
    { HookHandler("pass", "PreCommand", 100, Continue),
      HookHandler("again", "PreCommand", 200, Retry(3)),
      HookHandler("often", "PreCommand", 100, Retry(5)),
      HookHandler("mark", "PreCommand", 300, ModifyContext([seen |-> "yes"])),
      HookHandler("stop", "PreCommand", 100, BlockHook("denied")),
      HookHandler("recover", "OnError", 100, Retry(2)) }

MetadataSamples == { EmptyMap, [retry_max |-> "9"] }

NextRetry ==
    \/ RunChain
    \/ \E handler \in HookCatalogue : RegisterHook(handler)
    \/ \E hook_type \in HookTypes, metadata \in MetadataSamples :
          ExecuteHooks(hook_type, metadata)

SpecRetry == InitChain /\ [][NextRetry]_vars

RanHooks == last.op = "execute_hooks"

\* the retry_max a run of the hooks must leave: that of the last entry handled
\* that asked for a retry, else what the metadata held before
RECURSIVE RetryMaxAfter(_, _, _)
RetryMaxAfter(list, calls, q) ==
    IF q = 0 THEN "none"
    ELSE IF list[calls[q]].result.t = "Retry"
         THEN ToString(list[calls[q]].result.max_attempts)
         ELSE RetryMaxAfter(list, calls, q - 1)

(***************************************************************************)
(* C19: nothing is retried: within one execution of a chain each           *)
(* interceptor of the list is invoked at most once, invocations begin in   *)
(* strictly increasing index order and nothing is invoked after a          *)
(* failure; within one execute_hooks call each handler is invoked at most  *)
(* once, also when a handler returns Retry, of which only retry_max in     *)
(* the metadata of the context keeps a record.                             *)
(***************************************************************************)
C19_NoRetry ==
    /\ RanChain =>
          LET log == last.log
          IN /\ \A i \in 1..Len(last.chain) : Cardinality(InvokesOf(log, <<>>, i)) <= 1
             /\ \A p, q \in 1..Len(log) :
                   (p < q /\ IsInvoke(log[p], <<>>) /\ IsInvoke(log[q], <<>>))
                   => log[p].idx < log[q].idx
             /\ FirstFailure(log) # 0 =>
                   \A q \in (FirstFailure(log) + 1)..Len(log) : log[q].ev # "invoke"
    /\ RanHooks =>
          LET list == HandlersOf(last.hook_type)
              calls == last.calls
          IN /\ \A p, q \in 1..Len(calls) : p < q => calls[p] < calls[q]
             /\ \A q \in 1..Len(calls) : calls[q] \in 1..Len(list)
             /\ LET retry_max == RetryMaxAfter(list, calls, Len(calls))
                IN IF retry_max = "none"
                   THEN \/ "retry_max" \notin DOMAIN last.metadata
                        \/ /\ "retry_max" \in DOMAIN last.before
                           /\ last.metadata["retry_max"] = last.before["retry_max"]
                   ELSE /\ "retry_max" \in DOMAIN last.metadata
                        /\ last.metadata["retry_max"] = retry_max

\* the hooks ran over three handlers, of which one asked for a retry
C19_Witness ==
    /\ RanHooks
    /\ Len(last.calls) = 3
    /\ \E q \in 1..3 : HandlersOf(last.hook_type)[last.calls[q]].result.t = "Retry"
    /\ last.r.tag = "Ok"

\* a chain of three failed at its second interceptor
C19_WitnessChain ==
    /\ RanChain
    /\ Len(last.chain) = 3
    /\ FirstFailure(last.log) # 0
    /\ last.log[FirstFailure(last.log)].idx = 2
    /\ InvokesOf(last.log, <<>>, 1) # {}

(***************************************************************************)
(* The order of the handlers of a hook, and a handler that blocks.         *)
(***************************************************************************)
\* every entry of the registry, whatever the hook type it is kept under
AllRegistrations ==
    UNION { {handlers[t][i] : i \in 1..Len(handlers[t])} : t \in DOMAIN handlers }

\* the entries registered for a hook type
RegisteredFor(hook_type) == {e \in AllRegistrations : e.hook_type = hook_type}

\* x comes before y: its priority is higher, or equal and it was registered
\* earlier
ComesBefore(x, y) ==
    \/ x.priority > y.priority
    \/ x.priority = y.priority /\ x.seq < y.seq

\* the entries the last execute_hooks call invoked
Invoked == {last.handled[q] : q \in 1..Len(last.handled)}

(***************************************************************************)
(* C21: after any sequence of register_hook calls, execute_hooks(h, ...)   *)
(* invokes only handlers registered for hook h, in descending priority     *)
(* order and handlers of equal priority in the order of registration: no   *)
(* handler registered for h is passed over, and one that returns Ok has    *)
(* invoked all of them.                                                    *)
(***************************************************************************)
C21_PriorityThenRegistration ==
    RanHooks =>
        LET handled == last.handled
        IN /\ Invoked \subseteq RegisteredFor(last.hook_type)
           /\ \A p, q \in 1..Len(handled) : p < q => ComesBefore(handled[p], handled[q])
           /\ \A e \in RegisteredFor(last.hook_type) \ Invoked :
                 \A x \in Invoked : ComesBefore(x, e)
           /\ last.r.tag = "Ok" => Invoked = RegisteredFor(last.hook_type)

\* two handlers of equal priority were invoked, and a handler of another
\* hook type is registered
C21_Witness ==
    /\ RanHooks
    /\ \E p, q \in 1..Len(last.handled) :
          p < q /\ last.handled[p].priority = last.handled[q].priority
    /\ AllRegistrations \ RegisteredFor(last.hook_type) # {}

\* a handler registered later was invoked first, for its higher priority
C21_WitnessPriority ==
    /\ RanHooks
    /\ \E p, q \in 1..Len(last.handled) :
          p < q /\ last.handled[p].seq > last.handled[q].seq

\* the first entry of the list that blocks, 0 when none does
FirstBlock(list) ==
    LET blocks == {i \in 1..Len(list) : list[i].result.t = "Block"}
    IN IF blocks = {} THEN 0 ELSE CHOOSE i \in blocks : \A j \in blocks : i <= j

\* the entries before position b that write key: ModifyContext its changes,
\* Retry the key retry_max
WritersOf(list, b, key) ==
    {i \in 1..(b - 1) :
        \/ list[i].result.t = "ModifyContext" /\ key \in DOMAIN list[i].result.changes
        \/ list[i].result.t = "Retry" /\ key = "retry_max"}

\* what the entry at position i writes under key
WrittenBy(list, i, key) ==
    IF list[i].result.t = "Retry" THEN ToString(list[i].result.max_attempts)
    ELSE list[i].result.changes[key]

\* the keys written by the entries before position b
KeysWritten(list, b) ==
    UNION { IF list[i].result.t = "ModifyContext" THEN DOMAIN list[i].result.changes
            ELSE IF list[i].result.t = "Retry" THEN {"retry_max"} ELSE {}
            : i \in 1..(b - 1) }

(***************************************************************************)
(* C22: when a handler returns Block{reason}, execute_hooks returns an     *)
(* error equal to that reason and invokes no handler after it; the         *)
(* metadata changes of the handlers that ran before it (ModifyContext,     *)
(* Retry) are in the context, nothing is rolled back.                      *)
(***************************************************************************)
C22_BlockStops ==
    (RanHooks /\ FirstBlock(HandlersOf(last.hook_type)) # 0) =>
        LET list == HandlersOf(last.hook_type)
            b == FirstBlock(list)
        IN /\ last.r = Err(list[b].result.reason)
           /\ last.calls = [q \in 1..b |-> q]
           /\ DOMAIN last.metadata = DOMAIN last.before \cup KeysWritten(list, b)
           /\ \A key \in DOMAIN last.metadata :
                 LET writers == WritersOf(list, b, key)
                 IN IF writers = {} THEN last.metadata[key] = last.before[key]
                    ELSE last.metadata[key] =
                            WrittenBy(list, CHOOSE i \in writers : \A j \in writers : j <= i, key)

\* a handler blocked after a ModifyContext and a Retry had changed the
\* metadata, and a handler registered for the hook was never invoked
C22_Witness ==
    /\ RanHooks
    /\ last.r.tag = "Err"
    /\ \E p, q \in 1..Len(last.handled) :
          /\ last.handled[p].result.t = "ModifyContext"
          /\ last.handled[q].result.t = "Retry"
    /\ last.metadata # last.before

\* a handler that comes after the blocking one was not invoked
C22_WitnessSkipped ==
    /\ RanHooks
    /\ last.r.tag = "Err"
    /\ RegisteredFor(last.hook_type) \ Invoked # {}

(***************************************************************************)
(* ast.rs: Expression::evaluate on index accesses, binary and unary        *)
(* operations.  An i64 is IntBits wide here; a build is the pair of        *)
(* whether arithmetic overflow is checked (debug and release profiles) and *)
(* the width of usize on the target.                                       *)
(***************************************************************************)
IntBits == 4

I64_MIN == -(2 ^ (IntBits - 1))

I64_MAX == 2 ^ (IntBits - 1) - 1

\* the values of an i64
I64 == I64_MIN..I64_MAX

\* two's complement wrapping of a mathematical result into i64
WrappingI64(x) == ((x - I64_MIN) % (2 ^ IntBits)) + I64_MIN

\* the widths of usize among the targets: that of i64 or half of it
UsizeBits == {IntBits, IntBits \div 2}

Builds == [overflow_checks : BOOLEAN, usize_bits : UsizeBits]

\* LoomError::expression(expression_type, message, position)
ExpressionError(expression_type, message) ==
    [kind |-> "Expression", expression_type |-> expression_type, msg |-> message]

Abs(x) == IF x < 0 THEN -x ELSE x

RECURSIVE Gcd(_, _)
Gcd(a, b) == IF b = 0 THEN a ELSE Gcd(b, a % b)

\* LiteralValue: one shape for every variant; text is a string as the
\* sequence of its bytes, n over d the value of a float
Number(n) == [kind |-> "Number", n |-> n, d |-> 1, text |-> <<>>, items |-> <<>>]

Float(n, d) ==
    LET g == Gcd(Abs(n), Abs(d))
        sign == IF d < 0 THEN -1 ELSE 1
    IN [kind |-> "Float", n |-> sign * (n \div g), d |-> sign * (d \div g),
        text |-> <<>>, items |-> <<>>]

Boolean(b) == [kind |-> "Boolean", n |-> IF b THEN 1 ELSE 0, d |-> 1, text |-> <<>>,
               items |-> <<>>]

String(text) == [kind |-> "String", n |-> 0, d |-> 1, text |-> text, items |-> <<>>]

Array(items) == [kind |-> "Array", n |-> 0, d |-> 1, text |-> <<>>, items |-> items]

Json(text) == [kind |-> "Json", n |-> 0, d |-> 1, text |-> text, items |-> <<>>]

\* *a as f64
AsF64(a) == Float(a.n, 1)

\* idx as usize: the low usize_bits bits of the two's complement of idx
AsUsize(idx, usize_bits) == idx % (2 ^ usize_bits)

\* i64 division truncates towards zero
TruncatingDiv(a, b) ==
    LET q == Abs(a) \div Abs(b)
    IN IF (a < 0) = (b < 0) THEN q ELSE -q

\* a + b, a - b, a * b and -n on i64: a result out of range panics where
\* overflow is checked and wraps where it is not
Arithmetic(x, build) ==
    IF x \in I64 THEN Ok(Number(x))
    ELSE IF build.overflow_checks THEN Panic(<<>>, "attempt to compute with overflow")
    ELSE Ok(Number(WrappingI64(x)))

\* a / b on i64 with b # 0: i64::MIN / -1 panics in every build
DivideI64(a, b) ==
    IF a = I64_MIN /\ b = -1 THEN Panic(<<>>, "attempt to divide with overflow")
    ELSE Ok(Number(TruncatingDiv(a, b)))

RECURSIVE LessText(_, _)
\* str < str: byte by byte, a proper prefix first
LessText(a, b) ==
    IF Len(b) = 0 THEN FALSE
    ELSE IF Len(a) = 0 THEN TRUE
    ELSE IF a[1] # b[1] THEN a[1] < b[1]
    ELSE LessText(Tail(a), Tail(b))

\* str::starts_with
StartsWith(text, prefix) ==
    Len(prefix) <= Len(text) /\ SubSeq(text, 1, Len(prefix)) = prefix

\* str::ends_with
EndsWith(text, suffix) ==
    /\ Len(suffix) <= Len(text)
    /\ SubSeq(text, Len(text) - Len(suffix) + 1, Len(text)) = suffix

\* str::contains
Contains(text, sub) ==
    \E k \in 0..(Len(text) - Len(sub)) : SubSeq(text, k + 1, k + Len(sub)) = sub

\* Err(LoomError::expression("division", "Division by zero", pos))
DivisionByZero(pos) == Err(ExpressionError("division", "Division by zero"))

\* Expression::evaluate_literal_binary_op
EvaluateLiteralBinaryOp(left, operator, right, build) ==
    LET num == left.kind = "Number" /\ right.kind = "Number"
        flt == left.kind = "Float" /\ right.kind = "Float"
        nf == left.kind = "Number" /\ right.kind = "Float"
        fn == left.kind = "Float" /\ right.kind = "Number"
        str == left.kind = "String" /\ right.kind = "String"
        bool == left.kind = "Boolean" /\ right.kind = "Boolean"
        l == IF left.kind = "Number" THEN AsF64(left) ELSE left
        r == IF right.kind = "Number" THEN AsF64(right) ELSE right
    IN CASE operator = "Add" /\ num -> Arithmetic(left.n + right.n, build)
         [] operator = "Add" /\ (flt \/ nf \/ fn) ->
                Ok(Float(l.n * r.d + r.n * l.d, l.d * r.d))
         [] operator = "Add" /\ str -> Ok(String(left.text \o right.text))
         [] operator = "Subtract" /\ num -> Arithmetic(left.n - right.n, build)
         [] operator = "Subtract" /\ (flt \/ nf \/ fn) ->
                Ok(Float(l.n * r.d - r.n * l.d, l.d * r.d))
         [] operator = "Multiply" /\ num -> Arithmetic(left.n * right.n, build)
         [] operator = "Multiply" /\ (flt \/ nf \/ fn) -> Ok(Float(l.n * r.n, l.d * r.d))
         [] operator = "Divide" /\ num ->
                IF right.n = 0 THEN DivisionByZero(<<>>) ELSE DivideI64(left.n, right.n)
         [] operator = "Divide" /\ flt ->
                IF right.n = 0 THEN DivisionByZero(<<>>)
                ELSE Ok(Float(left.n * right.d, left.d * right.n))
         [] operator = "Equal" -> Ok(Boolean(left = right))
         [] operator = "NotEqual" -> Ok(Boolean(left # right))
         [] operator = "Less" /\ num -> Ok(Boolean(left.n < right.n))
         [] operator = "Less" /\ flt -> Ok(Boolean(left.n * right.d < right.n * left.d))
         [] operator = "Less" /\ str -> Ok(Boolean(LessText(left.text, right.text)))
         [] operator = "Contains" /\ str -> Ok(Boolean(Contains(left.text, right.text)))
         [] operator = "StartsWith" /\ str -> Ok(Boolean(StartsWith(left.text, right.text)))
         [] operator = "EndsWith" /\ str -> Ok(Boolean(EndsWith(left.text, right.text)))
         [] operator = "And" /\ bool -> Ok(Boolean(left.n = 1 /\ right.n = 1))
         [] operator = "Or" /\ bool -> Ok(Boolean(left.n = 1 \/ right.n = 1))
         [] OTHER -> Err(ExpressionError("binary_operation", "Operator not supported"))

\* the expressions of ast.rs
LiteralExpr(value) == [e |-> "Literal", value |-> value]

Variable(name) == [e |-> "Variable", name |-> name]

FunctionCall(name) == [e |-> "FunctionCall", name |-> name]

IndexAccess(object, index) == [e |-> "IndexAccess", object |-> object, index |-> index]

BinaryOp(left, operator, right) ==
    [e |-> "BinaryOp", left |-> left, operator |-> operator, right |-> right]

UnaryOp(operator, operand) == [e |-> "UnaryOp", operator |-> operator, operand |-> operand]

\* the IndexAccess arm, once object and index are values
IndexInto(obj_value, index_value, build) ==
    IF obj_value.kind = "Array" /\ index_value.kind = "Number"
    THEN LET idx == AsUsize(index_value.n, build.usize_bits)
         IN IF idx < Len(obj_value.items) THEN Ok(obj_value.items[idx + 1])
            ELSE Err(LoomError(<<>>, "Array index out of bounds"))
    ELSE Err(ExpressionError("index_access", "Cannot index"))

\* the UnaryOp arm, once the operand is a value
ApplyUnary(operator, value, build) ==
    CASE operator = "Not" /\ value.kind = "Boolean" -> Ok(Boolean(value.n = 0))
      [] operator = "Minus" /\ value.kind = "Number" -> Arithmetic(-value.n, build)
      [] operator = "Minus" /\ value.kind = "Float" -> Ok(Float(-value.n, value.d))
      [] OTHER -> Err(ExpressionError("unary_operation", "Cannot apply"))

RECURSIVE EvaluateExpression(_, _, _)
\* Expression::evaluate with position None: an operand that fails (?) or
\* panics ends the evaluation
EvaluateExpression(expr, variables, build) ==
    CASE expr.e = "Literal" -> Ok(expr.value)
      [] expr.e = "Variable" ->
             IF expr.name \in DOMAIN variables THEN Ok(variables[expr.name])
             ELSE Err(LoomError(<<>>, "Variable not found"))
      [] expr.e = "FunctionCall" ->
             Err([kind |-> "NotImplemented", expression_type |-> "function calls",
                  msg |-> expr.name])
      [] expr.e = "IndexAccess" ->
             LET obj_value == EvaluateExpression(expr.object, variables, build)
             IN IF obj_value.tag # "Ok" THEN obj_value
                ELSE LET index_value == EvaluateExpression(expr.index, variables, build)
                     IN IF index_value.tag # "Ok" THEN index_value
                        ELSE IndexInto(obj_value.val, index_value.val, build)
      [] expr.e = "BinaryOp" ->
             LET left_val == EvaluateExpression(expr.left, variables, build)
             IN IF left_val.tag # "Ok" THEN left_val
                ELSE LET right_val == EvaluateExpression(expr.right, variables, build)
                     IN IF right_val.tag # "Ok" THEN right_val
                        ELSE EvaluateLiteralBinaryOp(left_val.val, expr.operator,
                                                     right_val.val, build)
      [] OTHER ->
             LET value == EvaluateExpression(expr.operand, variables, build)
             IN IF value.tag # "Ok" THEN value
                ELSE ApplyUnary(expr.operator, value.val, build)

(***************************************************************************)
(* Evaluations of expressions: an expression over sample operands is       *)
(* evaluated by some build.                                                *)
(***************************************************************************)
BinaryOperators ==
    {"Add", "Subtract", "Multiply", "Divide", "Modulo", "Equal", "NotEqual", "Less",
     "LessEqual", "Greater", "GreaterEqual", "And", "Or", "Contains", "StartsWith",
     "EndsWith", "Is", "IsNot"}

UnaryOperators == {"Not", "Minus"}

ArraySamples ==
    { Array(<<>>), Array(<<Number(5)>>), Array(<<String(<<97>>), Number(I64_MIN)>>) }

ValueSamples ==
    {Number(n) : n \in I64}
    \cup {Float(0, 1), Float(1, 2), Float(-3, 2), Float(2, 1)}
    \cup {String(<<>>), String(<<97>>), String(<<97, 98>>)}
    \cup {Boolean(TRUE), Boolean(FALSE), Json(<<123, 125>>)}
    \cup ArraySamples

\* the variables of the execution context that the samples refer to
ExprVariables == [n |-> Number(I64_MAX), list |-> Array(<<Number(1), Number(2)>>)]

\* operands that are expressions themselves
NestedSamples ==
    { Variable("n"), Variable("list"), Variable("missing"), FunctionCall("now"),
      UnaryOp("Minus", LiteralExpr(Number(I64_MIN))),
      BinaryOp(LiteralExpr(Number(1)), "Subtract", LiteralExpr(Number(1))) }

OperandSamples == {LiteralExpr(v) : v \in ValueSamples} \cup NestedSamples

ExpressionSamples ==
    {BinaryOp(left, operator, right) :
        left \in OperandSamples, operator \in BinaryOperators, right \in OperandSamples}
    \cup {UnaryOp(operator, operand) :
             operator \in UnaryOperators, operand \in OperandSamples}
    \cup {IndexAccess(object, index) : object \in OperandSamples, index \in OperandSamples}

InitExpr ==
    /\ interceptors = <<>>
    /\ configs = EmptyMap
    /\ user_overrides = EmptyMap
    /\ d_interceptors = EmptyMap
    /\ chain_cache = EmptyMap
    /\ nexec = 0
    /\ handlers = EmptyMap
    /\ registered = <<>>
    /\ \E expr \in ExpressionSamples, build \in Builds :
          last = [op |-> "expression", expr |-> expr, build |-> build]

\* Expression::evaluate(loom_context, context, None) on the expression drawn,
\* which is of form e
EvaluateStep(e) ==
    /\ last.op = "expression"
    /\ last.expr.e = e
    /\ last' = [op |-> "evaluate", expr |-> last.expr, build |-> last.build,
                r |-> EvaluateExpression(last.expr, ExprVariables, last.build)]
    /\ UNCHANGED <<interceptors, configs, user_overrides, d_interceptors, chain_cache, nexec,
                   handlers, registered>>

NextExpr ==
    \/ EvaluateStep("BinaryOp")
    \/ EvaluateStep("UnaryOp")
    \/ EvaluateStep("IndexAccess")

SpecExpr == InitExpr /\ [][NextExpr]_vars

\* the last step evaluated an expression of this form
Evaluated(e) == last.op = "evaluate" /\ last.expr.e = e

\* what an operand of the expression evaluated came to
OperandResult(operand) == EvaluateExpression(operand, ExprVariables, last.build)

\* both operands of the binary operation evaluated came to values of these
\* kinds
BinaryOn(operator, left_kind, right_kind) ==
    /\ Evaluated("BinaryOp")
    /\ last.expr.operator = operator
    /\ OperandResult(last.expr.left).tag = "Ok"
    /\ OperandResult(last.expr.right).tag = "Ok"
    /\ OperandResult(last.expr.left).val.kind = left_kind
    /\ OperandResult(last.expr.right).val.kind = right_kind

NumericKinds == {"Number", "Float"}

(***************************************************************************)
(* C23: Divide with a divisor equal to zero fails with the division by     *)
(* zero error for every combination of Number and Float operands           *)
(* (Number/Number, Float/Float, Number/Float, Float/Number): no value is   *)
(* returned and nothing panics.                                            *)
(***************************************************************************)
C23_DivisionByZero ==
    \A left_kind, right_kind \in NumericKinds :
        (BinaryOn("Divide", left_kind, right_kind)
         /\ OperandResult(last.expr.right).val.n = 0)
        => last.r = Err(ExpressionError("division", "Division by zero"))

\* a Number was divided by the Float zero: the error is that of an
\* unsupported operator
C23_Witness ==
    /\ BinaryOn("Divide", "Number", "Float")
    /\ OperandResult(last.expr.right).val.n = 0
    /\ last.r = Err(ExpressionError("binary_operation", "Operator not supported"))

(***************************************************************************)
(* C24: for all i64 operands, Add, Subtract, Multiply and Divide on        *)
(* Numbers and unary Minus on a Number return a value or an error and      *)
(* never panic, also when the mathematical result is outside of i64.       *)
(***************************************************************************)
C24_NeverPanics ==
    /\ \A operator \in {"Add", "Subtract", "Multiply", "Divide"} :
          BinaryOn(operator, "Number", "Number") => last.r.tag \in {"Ok", "Err"}
    /\ (/\ Evaluated("UnaryOp")
        /\ last.expr.operator = "Minus"
        /\ OperandResult(last.expr.operand).tag = "Ok"
        /\ OperandResult(last.expr.operand).val.kind = "Number")
       => last.r.tag \in {"Ok", "Err"}

\* i64::MIN was divided by -1 in a build without overflow checks, and the
\* evaluation panicked
C24_Witness ==
    /\ BinaryOn("Divide", "Number", "Number")
    /\ OperandResult(last.expr.left).val.n = I64_MIN
    /\ OperandResult(last.expr.right).val.n = -1
    /\ ~last.build.overflow_checks
    /\ last.r.tag = "Panic"

(***************************************************************************)
(* C25: IndexAccess on an array of length n with an integer index i        *)
(* returns element i when 0 <= i < n and an out-of-bounds error for every  *)
(* other integer i, every negative i included; on an object that is no     *)
(* array or an index that is no integer it returns an error, never a       *)
(* default value.                                                          *)
(***************************************************************************)
C25_IndexAccess ==
    (/\ Evaluated("IndexAccess")
     /\ OperandResult(last.expr.object).tag = "Ok"
     /\ OperandResult(last.expr.index).tag = "Ok") =>
        LET object == OperandResult(last.expr.object).val
            index == OperandResult(last.expr.index).val
        IN IF object.kind = "Array" /\ index.kind = "Number"
           THEN IF 0 <= index.n /\ index.n < Len(object.items)
                THEN last.r = Ok(object.items[index.n + 1])
                ELSE last.r = Err(LoomError(<<>>, "Array index out of bounds"))
           ELSE last.r.tag = "Err"

\* an index beyond the length of the array returned an element of it
C25_Witness ==
    /\ Evaluated("IndexAccess")
    /\ OperandResult(last.expr.object).tag = "Ok"
    /\ OperandResult(last.expr.index).tag = "Ok"
    /\ OperandResult(last.expr.object).val.kind = "Array"
    /\ OperandResult(last.expr.index).val.kind = "Number"
    /\ OperandResult(last.expr.index).val.n >= Len(OperandResult(last.expr.object).val.items)
    /\ last.r.tag = "Ok"

(***************************************************************************)
(* The chains of composite nodes.                                          *)
(***************************************************************************)
\* the context execute() makes for the definition of the last build
BuildContext ==
    ExecutionContext(ModuleVariables, last.env, ScopeOf(FindDefinition(last.def)))

CountOf(s, x) == Cardinality({i \in 1..Len(s) : s[i] = x})

\* two lists with the same elements, each as many times
SameElements(a, b) ==
    /\ Len(a) = Len(b)
    /\ \A i \in 1..Len(a) : CountOf(a, a[i]) = CountOf(b, a[i])

\* chain is what the claim says of a composite node: the active globals and
\* the node's directive interceptors by descending priority, then one
\* executor that embeds the chain of each child, in child order
CompositeChain(chain, activity) ==
    /\ chain # <<>>
    /\ LET t == chain[Len(chain)]
           before == SubSeq(chain, 1, Len(chain) - 1)
           own == BuildActive(d_interceptors, BuildContext, activity.directives)
           children == BuildChild(activity)
       IN /\ t.kind = "Executor"
          /\ t.exec \in {"Sequential", "Definition"}
          /\ own.tag = "Ok"
          /\ SameElements(before,
                          [i \in 1..Len(last.global) |-> GlobalOf(last.global[i])] \o own.val)
          /\ \A i \in 1..(Len(before) - 1) : Priority(before[i]) >= Priority(before[i + 1])
          /\ Len(t.children) = Len(children)
          /\ \A i \in 1..Len(children) :
                /\ t.children[i].exec = "SequenceChain"
                /\ \E flip \in BOOLEAN :
                      Ok(t.children[i].children) =
                          BuildTargetChain(d_interceptors, BuildContext, children[i],
                                           last.global, <<>>, flip)

(***************************************************************************)
(* C26: the chain built for a Block, Definition or Job node with children  *)
(* k1..kn is the active globals and the node's own directive interceptors  *)
(* sorted by descending priority, followed by one sequence executor that   *)
(* embeds exactly n child chains, the i-th the full chain built for ki;    *)
(* the chain built for a Job node is not empty.                            *)
(***************************************************************************)
C26_CompositeChain ==
    (Built /\ FindDefinition(last.def).kind \in {"Recipe", "Job"}) =>
        LET activity == ActivityOf(FindDefinition(last.def))
            blocks == BuildChild(activity)
        IN /\ CompositeChain(last.r.val, activity)
           /\ \A i \in 1..Len(blocks) :
                 CompositeChain(last.r.val[Len(last.r.val)].children[i].children, blocks[i])

\* the chain of a Job with one block was built while globals were active,
\* and it is empty
C26_Witness ==
    /\ Built
    /\ FindDefinition(last.def).kind = "Job"
    /\ Len(BuildChild(ActivityOf(FindDefinition(last.def)))) = 1
    /\ last.global # <<>>
    /\ last.r.val = <<>>

\* the active global of this name, as an element of a chain
GlobalsNamed(chain, name) ==
    {i \in 1..Len(chain) : chain[i].kind = "Global" /\ chain[i].name = name}

(***************************************************************************)
(* C29: every non-empty chain built for any node (command, block,          *)
(* definition), at any nesting depth, holds each active global interceptor *)
(* exactly once: a global is entered once per node, not once per           *)
(* execute().                                                              *)
(***************************************************************************)
C29_GlobalsInEveryChain ==
    Built =>
        \A chain \in AllChains(last.r.val) :
            chain # <<>> =>
                /\ \A g \in 1..Len(last.global) :
                      /\ Cardinality(GlobalsNamed(chain, last.global[g].name)) = 1
                      /\ \E i \in 1..Len(chain) : chain[i] = GlobalOf(last.global[g])
                /\ \A i \in 1..Len(chain) :
                      chain[i].kind = "Global" => chain[i].name \in Names(last.global)

\* two globals are active and the chain built holds chains at three depths
C29_Witness ==
    /\ Built
    /\ Len(last.global) = 2
    /\ last.def = "release"
    /\ Cardinality({chain \in AllChains(last.r.val) : chain # <<>>}) >= 5

(***************************************************************************)
(* The end of a list: execute_chain on lists that need not end in an       *)
(* executor, and execute() on the definitions whose chain is empty.        *)
(***************************************************************************)
TailChains ==
    { [i \in 1..Len(shapes) |-> NonTerminal(shapes[i], i)] :
         shapes \in SeqsUpTo(Shapes, MaxChain) }

TailDefs == {"ci", "nightly", "weekly", "hello"}

InitTail ==
    /\ interceptors = <<>>
    /\ configs = EmptyMap
    /\ user_overrides = EmptyMap
    /\ d_interceptors = EmptyMap
    /\ chain_cache = EmptyMap
    /\ nexec = 0
    /\ handlers = EmptyMap
    /\ registered = <<>>
    /\ \E chain \in TailChains : last = [op |-> "chain", chain |-> chain]

NextTail ==
    \/ RunChain
    \/ \E def_name \in TailDefs, env_vars \in EnvCatalogue :
          /\ nexec < MaxExec
          /\ Execute(def_name, <<>>, env_vars)
          /\ nexec' = nexec + 1
          /\ UNCHANGED <<handlers, registered>>

SpecTail == InitTail /\ [][NextTail]_vars

\* the errors of a continuation that does not resume the chain
EndOfChainErrors ==
    {"End of interceptor chain reached", "You are trying to call an empty interceptor chain"}

(***************************************************************************)
(* C27: execute_chain returns an error for an empty list; when the         *)
(* interceptor at the last index calls its continuation, the continuation  *)
(* returns an error and invokes no interceptor; so execute() on a          *)
(* definition whose built chain is empty (the Stage, Pipeline and Schedule *)
(* placeholders) returns an error and runs no command.                     *)
(***************************************************************************)
C27_EmptyAndEnd ==
    /\ (RanChain /\ last.chain = <<>>) =>
          /\ last.r = Err(LoomError(<<>>, "Empty interceptor chain"))
          /\ last.log = <<>>
    /\ (RanChain /\ last.chain # <<>>) =>
          LET n == Len(last.chain)
              log == last.log
          IN \A q \in 1..Len(log) :
                (IsNext(log[q], <<>>) /\ log[q].idx = n) =>
                    /\ \A p \in (q + 1)..Len(log) : log[p].ev # "invoke"
                    /\ last.chain[n].beh = "next" =>
                          \A p \in ReturnsOf(log, <<>>, n) :
                              /\ log[p].prev.tag = "Err"
                              /\ log[p].prev.val.msg \in EndOfChainErrors
    /\ (RanExecute /\ last.ran /\ last.chain = <<>>) =>
          /\ last.r = Err(LoomError(<<>>, "Empty interceptor chain"))
          /\ last.log = <<>>

\* the second of two interceptors, reached through the continuation of the
\* first, called its own continuation at the end of the list
C27_Witness ==
    /\ RanChain
    /\ Len(last.chain) = 2
    /\ Delegated(last.log, <<>>, 1)
    /\ Delegated(last.log, <<>>, 2)
    /\ last.r.tag = "Err"

\* execute() ran the empty chain of a pipeline
C27_WitnessPlaceholder ==
    /\ RanExecute
    /\ FindDefinition(last.def).kind = "Pipeline"
    /\ last.ran
    /\ last.chain = <<>>

\* execute_chain was given the empty list
C27_WitnessEmpty == RanChain /\ last.chain = <<>>

(***************************************************************************)
(* C28: every interceptor with need_chain() == false, wherever it sits in  *)
(* the list, also after an interceptor with need_chain() == true that      *)
(* delegated through next, is invoked with a continuation that returns an  *)
(* error at once when called and invokes no further interceptor.           *)
(***************************************************************************)
C28_NoChainNoContinuation ==
    RanChain =>
        LET log == last.log
        IN \A q \in 1..Len(log) :
              (IsInvoke(log[q], <<>>) /\ ~NeedChain(last.chain[log[q].idx])) =>
                  /\ log[q].next = "empty"
                  /\ \A p \in (q + 1)..Len(log) :
                        (IsNext(log[p], <<>>) /\ log[p].idx = log[q].idx) =>
                            ~InvokedLaterThan(log, p, <<>>, log[q].idx)

\* an interceptor that does not need the chain, placed after one that does
\* and delegated, called its continuation, and the executor after it ran
C28_Witness ==
    /\ RanChain
    /\ Len(last.chain) = 3
    /\ NeedChain(last.chain[1])
    /\ ~NeedChain(last.chain[2])
    /\ Delegated(last.log, <<>>, 1)
    /\ Delegated(last.log, <<>>, 2)
    /\ InvokesOf(last.log, <<>>, 3) # {}

(***************************************************************************)
(* The chain cache and the calls that change the managers.                 *)
(***************************************************************************)
CacheDirectives ==
    { DirectiveInterceptor("log", 700, TRUE, "next"),
      DirectiveInterceptor("trace", 7999, TRUE, "next"),
      DirectiveInterceptor("if", 100, FALSE, "ok") }

CacheDefs == {"hello", "tagged", "missing"}

CacheArgs == { <<>>, <<InputArg("env", LitExpr("string", "prod"))>> }

\* the managers are changed and definitions executed in any order: guard is
\* registered, configured and overridden, stray and if are refused, tagged
\* is built only once log and trace are registered
NextCache ==
    \/ \E o \in GlobalCatalogue, k \in 1..2 : RegisterGlobal(o, k) /\ UNCHANGED <<nexec, handlers>>
    \/ \E o \in CacheDirectives :
          RegisterDirective(o) /\ UNCHANGED <<nexec, handlers, registered>>
    \/ \E name \in NameCatalogue, config \in ConfigCatalogue :
          ConfigureGlobal(name, config) /\ UNCHANGED <<nexec, handlers, registered>>
    \/ \E name \in NameCatalogue, enabled \in BOOLEAN :
          OverrideGlobal(name, enabled) /\ UNCHANGED <<nexec, handlers, registered>>
    \/ \E def_name \in CacheDefs, input_args \in CacheArgs, env_vars \in EnvCatalogue :
          /\ nexec < MaxExec /\ Execute(def_name, input_args, env_vars) /\ nexec' = nexec + 1
          /\ UNCHANGED <<handlers, registered>>

SpecCache == Init /\ [][NextCache]_vars

ManagerOps == {"register_global", "register_directive", "configure_global", "override_global"}

\* the chains build_target_chain gives for a definition under the managers
\* as they are now, for any arguments and environment of the catalogues
BuildsNow(def_name) ==
    IF ~HasDefinition(def_name) THEN {}
    ELSE { BuildTargetChain(d_interceptors,
                            ExecutionContext(ModuleVariables, env_vars,
                                             ScopeOf(FindDefinition(def_name))),
                            ActivityOf(FindDefinition(def_name)),
                            GetActive(interceptors, configs, user_overrides,
                                      ExecutionContext(ModuleVariables, env_vars,
                                                       ScopeOf(FindDefinition(def_name)))),
                            input_args, flip) :
             env_vars \in EnvCatalogue, input_args \in CacheArgs, flip \in BOOLEAN }

(***************************************************************************)
(* C30: every call of register_global, register_directive,                 *)
(* configure_global or override_global, accepted or rejected, leaves the   *)
(* chain cache empty, so no execute() after such a call runs a chain built *)
(* before it; the cache gains an entry only from an execute() whose chain  *)
(* build succeeded.                                                        *)
(***************************************************************************)
C30_CacheCleared ==
    /\ last.op \in ManagerOps => chain_cache = EmptyMap
    /\ chain_cache # EmptyMap => RanExecute
    /\ \A key \in DOMAIN chain_cache : Ok(chain_cache[key]) \in BuildsNow(key[1])
    /\ (RanExecute /\ last.hit) => Ok(last.chain) \in BuildsNow(last.def)
    /\ (RanExecute /\ last.cached) =>
          /\ last.built
          /\ Ok(last.chain) \in last.fresh
          /\ chain_cache[CacheKey(last.def, last.args)] = last.chain
    /\ (RanExecute /\ last.built /\ ~last.cached) =>
          /\ last.r.tag = "Err"
          /\ last.r \in last.fresh

\* a call that was rejected came after every execute() the bound allows,
\* and the cache is empty
C30_Witness ==
    /\ last.op \in ManagerOps
    /\ ~last.ok
    /\ nexec = MaxExec
    /\ chain_cache = EmptyMap

\* an execute() took its chain from the cache while a global and a
\* directive are registered
C30_WitnessHit ==
    /\ RanExecute
    /\ last.hit
    /\ interceptors # <<>>
    /\ d_interceptors # EmptyMap

\* an execute() whose build failed left the cache without an entry for it
C30_WitnessFailedBuild ==
    /\ RanExecute
    /\ last.built
    /\ ~last.cached
    /\ CacheKey(last.def, last.args) \notin DOMAIN chain_cache

(***************************************************************************)
(* build_target_chain call by call: the stack of its activations.  A frame *)
(* is the activity being built and the number of its children already      *)
(* asked for; MaxDepth is the depth at which the exploration stops.        *)
(***************************************************************************)
MaxDepth == 8

Frame(activity, i) == [activity |-> activity, i |-> i]

\* a call arm with a cycle guard: a definition that is being built is not
\* entered again
EntersUnlessOnPath(stack, name) ==
    \A k \in 1..Len(stack) :
        ~(stack[k].activity.tag = "Definition" /\ stack[k].activity.name = name)

\* the call arm asks nothing of the path it was called on before it
\* recurses into the callee
EntersCallee(stack, name) == TRUE

\* what the activation on top of the stack does next: "pop" returns Ok to
\* its caller, "push" calls build_target_chain on an activity, "fail"
\* returns an error, which every caller passes on (?)
StepOf(stack, dis, context) ==
    LET top == stack[Len(stack)]
        activity == top.activity
    IN CASE activity.tag = "Command" /\ activity.stmt.t = "Command" ->
                LET d == BuildActive(dis, context, activity.stmt.directives)
                IN IF d.tag # "Ok" THEN [k |-> "fail", r |-> d] ELSE [k |-> "pop"]
         [] activity.tag = "Command" /\ activity.stmt.t = "Call" ->
                IF top.i > 0 THEN [k |-> "pop"]
                ELSE IF ~HasDefinition(activity.stmt.name)
                THEN [k |-> "fail", r |-> Err(LoomError(<<>>, "Definition non esistente"))]
                ELSE LET callee == FindDefinition(activity.stmt.name)
                         converted == PositionalArgFromExpression(callee.parameters,
                                                                  activity.stmt.args)
                     IN IF converted.tag # "Ok" THEN [k |-> "fail", r |-> converted]
                        ELSE IF EntersCallee(stack, activity.stmt.name)
                        THEN [k |-> "push", activity |-> ActivityOf(callee)]
                        ELSE [k |-> "pop"]
         [] activity.tag \in {"Block", "Definition"} ->
                IF top.i < Len(BuildChild(activity))
                THEN [k |-> "push", activity |-> BuildChild(activity)[top.i + 1]]
                ELSE LET d == BuildActive(dis, context, activity.directives)
                     IN IF d.tag # "Ok" THEN [k |-> "fail", r |-> d] ELSE [k |-> "pop"]
         [] OTHER -> [k |-> "pop"]

Building(def_name, stack) ==
    [op |-> "building", def |-> def_name, stack |-> stack, r |-> NoResult]

\* one step of the build that execute() started for a definition
BuildStep ==
    /\ last.op = "building"
    /\ LET stack == last.stack
           n == Len(stack)
           context == ExecutionContext(ModuleVariables, EmptyMap,
                                       ScopeOf(FindDefinition(last.def)))
           step == StepOf(stack, d_interceptors, context)
       IN CASE step.k = "fail" ->
                   last' = [op |-> "build_failed", def |-> last.def, stack |-> <<>>,
                            r |-> step.r]
            [] step.k = "pop" ->
                   last' = IF n = 1
                           THEN [op |-> "built", def |-> last.def, stack |-> <<>>,
                                 r |-> Ok(<<>>)]
                           ELSE Building(last.def, SubSeq(stack, 1, n - 1))
            [] OTHER ->
                   /\ n < MaxDepth
                   /\ last' = Building(last.def,
                                 Append([stack EXCEPT ![n].i = @ + 1], Frame(step.activity, 0)))
    /\ UNCHANGED <<interceptors, configs, user_overrides, d_interceptors, chain_cache, nexec,
                   handlers, registered>>

RecursionDefs ==
    {"hello", "deploy", "release", "tagged", "nightly", "ci", "weekly", "loop", "ping",
     "pong", "stuck", "wide"}

\* the directive managers the builds run under: nothing registered, or log,
\* trace and parallel
RecursionDirectives ==
    { EmptyMap,
      [log |-> DirectiveInterceptor("log", 500, TRUE, "next"),
       trace |-> DirectiveInterceptor("trace", 7999, TRUE, "next"),
       parallel |-> DirectiveInterceptor("parallel", 4000, TRUE, "parallel")] }

InitRecursion ==
    /\ interceptors = <<>>
    /\ configs = EmptyMap
    /\ user_overrides = EmptyMap
    /\ d_interceptors \in RecursionDirectives
    /\ chain_cache = EmptyMap
    /\ nexec = 0
    /\ handlers = EmptyMap
    /\ registered = <<>>
    /\ \E def_name \in RecursionDefs :
          last = Building(def_name, <<Frame(ActivityOf(FindDefinition(def_name)), 0)>>)

NextRecursion == BuildStep

\* the build goes on as long as it has a step to take
SpecRecursion == InitRecursion /\ [][NextRecursion]_vars /\ WF_vars(BuildStep)

\* the definitions a definition calls: the Call statements of its blocks
\* whose name resolves
Callees(def_name) ==
    LET body == FindDefinition(def_name).body
        calls == UNION { {body[nb].statements[ns] : ns \in 1..Len(body[nb].statements)} :
                            nb \in 1..Len(body) }
    IN IF FindDefinition(def_name).kind # "Recipe" THEN {}
       ELSE {stmt.name : stmt \in {c \in calls : c.t = "Call" /\ HasDefinition(c.name)}}

RECURSIVE ReachableIn(_, _)
\* the definitions reached from a set of them by at most n calls
ReachableIn(from, n) ==
    IF n = 0 THEN from
    ELSE ReachableIn(from \cup UNION {Callees(d) : d \in from}, n - 1)

\* the definitions reached from def_name by one call or more
CalledFrom(def_name) == ReachableIn(Callees(def_name), Cardinality(DOMAIN Definitions))

\* the call graph reachable from def_name has no cycle
Acyclic(def_name) == \A d \in {def_name} \cup CalledFrom(def_name) : d \notin CalledFrom(d)

BuildEnded == last.op \in {"built", "build_failed"}

C31_WitnessBuilt ==
    /\ last.op = "built"
    /\ last.def = "release"

\* the build of a definition that calls itself ended: with an error
C31_WitnessFailed ==
    /\ last.op = "build_failed"
    /\ ~Acyclic(last.def)

(***************************************************************************)
(* execute() on definitions whose chain cannot be built, under registries  *)
(* that hold different values for the module variables.                    *)
(***************************************************************************)
ParseDirectives ==
    { DirectiveInterceptor("parallel", 4000, TRUE, "parallel"),
      DirectiveInterceptor("log", 700, TRUE, "next"),
      DirectiveInterceptor("trace", 7999, TRUE, "next") }

ParseDefs == {"hello", "release", "tagged", "stuck", "wide"}

\* the variables the registry gives for a definition, at two different calls
VariableSamples ==
    { ModuleVariables,
      [greeting |-> Literal("string", "ciao"), unset |-> Empty] }

NextParse ==
    \/ \E o \in GlobalCatalogue, k \in 1..2 : RegisterGlobal(o, k) /\ UNCHANGED <<nexec, handlers>>
    \/ \E o \in ParseDirectives :
          RegisterDirective(o) /\ UNCHANGED <<nexec, handlers, registered>>
    \/ \E def_name \in ParseDefs, variables \in VariableSamples :
          /\ nexec < MaxExec
          /\ ExecuteUnder(def_name, <<>>, EmptyMap, variables)
          /\ nexec' = nexec + 1
          /\ UNCHANGED <<handlers, registered>>

SpecParse == Init /\ [][NextParse]_vars

\* the directive names written anywhere in the tree of a definition of
\* ParseDefs, and the definitions of ParseDefs with a call that cannot be
\* built: stuck calls a name nobody defined, wide passes an argument to a
\* definition without parameters
DirectivesWritten(def_name) ==
    CASE def_name = "release" -> {"parallel", "log", "trace"}
      [] def_name = "tagged" -> {"log", "trace"}
      [] OTHER -> {}

BadCalls == {"stuck", "wide"}

CannotBuild(def_name) ==
    \/ def_name \in BadCalls
    \/ ~(DirectivesWritten(def_name) \subseteq DOMAIN d_interceptors)

(***************************************************************************)
(* C32: the chain is built for the whole tree of the definition before any *)
(* interceptor is invoked: when the build fails anywhere in the tree       *)
(* (unknown directive, unresolved callee, too many call arguments)         *)
(* execute() returns that error, no interceptor has run, no command was    *)
(* spawned and the cache is as it was.                                     *)
(***************************************************************************)
C32_BuildBeforeRun ==
    /\ [](RanExecute /\ CannotBuild(last.def) =>
             /\ last.built
             /\ last.r.tag = "Err"
             /\ last.r \in last.fresh
             /\ last.log = <<>>
             /\ ~last.ran
             /\ ~last.cached
             /\ CacheKey(last.def, last.args) \notin DOMAIN chain_cache)
    /\ [](RanExecute /\ last.ran /\ ~last.hit => Ok(last.chain) \in last.fresh)
    /\ [][(last'.op = "execute" /\ CannotBuild(last'.def)) =>
             chain_cache' = chain_cache]_vars

\* release was executed with a global and parallel and trace registered:
\* the directive nobody registered is on the third statement of its block
C32_Witness ==
    /\ RanExecute
    /\ last.def = "release"
    /\ DOMAIN d_interceptors = {"parallel", "trace"}
    /\ interceptors # <<>>
    /\ last.r.tag = "Err"

\* the callee nobody defined
C32_WitnessCallee ==
    /\ RanExecute
    /\ last.def = "stuck"
    /\ last.r = Err(LoomError(<<>>, "Definition non esistente"))
    /\ chain_cache # EmptyMap

\* the call with too many arguments
C32_WitnessArguments ==
    /\ RanExecute
    /\ last.def = "wide"
    /\ last.r.tag = "Err"
    /\ chain_cache # EmptyMap

(***************************************************************************)
(* The parameters of the directive interceptors of a chain.                *)
(***************************************************************************)
\* the directive calls written on a definition, on its blocks and on the
\* statements of its blocks
CallsWrittenOn(def_name) ==
    LET definition == FindDefinition(def_name)
        body == definition.body
        on_blocks == UNION { {body[nb].directives[i] : i \in 1..Len(body[nb].directives)} :
                                nb \in 1..Len(body) }
        commands == UNION { {body[nb].statements[ns] : ns \in 1..Len(body[nb].statements)} :
                               nb \in 1..Len(body) }
        on_commands == UNION { {stmt.directives[i] : i \in 1..Len(stmt.directives)} :
                                  stmt \in {c \in commands : c.t = "Command"} }
    IN {definition.directives[i] : i \in 1..Len(definition.directives)}
          \cup on_blocks \cup on_commands

\* the directive calls in the tree of a definition
CallsWrittenIn(def_name) ==
    UNION {CallsWrittenOn(d) : d \in {def_name} \cup CalledFrom(def_name)}

\* what parsing the calls in the tree of a definition gives under variables
ParamsUnder(variables, def_name) ==
    { [name |-> call.name, params |-> EvaluateAll(call.args, variables, 1)] :
         call \in CallsWrittenIn(def_name) }

\* the parameters the directive interceptors of a chain and of the chains
\* below it hold
ParamsHeld(chain) ==
    UNION { {[name |-> c[i].name, params |-> Ok(c[i].args)] :
                i \in {j \in 1..Len(c) : c[j].kind = "Directive"}} :
            c \in AllChains(chain) }

\* the variables of the execution context when the first interceptor of the
\* run was invoked
RunVariables == last.log[1].variables

(***************************************************************************)
(* C33: the arguments of a directive call are parsed when the chain is     *)
(* built, against the execution context execute() starts with; the         *)
(* directive interceptors of a chain that ran hold those values, the run   *)
(* leaves them as they are, and a chain served from the cache holds the    *)
(* values of the execute() that built it.                                  *)
(***************************************************************************)
C33_ParsedAtBuild ==
    (RanExecute /\ last.ran) =>
        /\ last.log # <<>>
        /\ last.log[1].ev = "invoke"
        /\ ~last.hit => ParamsHeld(last.chain) = ParamsUnder(RunVariables, last.def)
        /\ last.hit => \E variables \in VariableSamples :
                          ParamsHeld(last.chain) = ParamsUnder(variables, last.def)
        /\ chain_cache[CacheKey(last.def, last.args)] = last.chain

\* release ran on a chain it built: the log directive of its third
\* statement holds the greeting of the registry
C33_Witness ==
    /\ RanExecute
    /\ last.ran
    /\ ~last.hit
    /\ last.def = "release"
    /\ RunVariables.greeting = Literal("string", "ciao")
    /\ [name |-> "log", params |-> Ok(<<Literal("string", "ciao")>>)] \in ParamsHeld(last.chain)

\* release ran on a chain from the cache, built when the registry held
\* another greeting
C33_WitnessCached ==
    /\ RanExecute
    /\ last.ran
    /\ last.hit
    /\ last.def = "release"
    /\ ParamsHeld(last.chain) # ParamsUnder(RunVariables, last.def)

(***************************************************************************)
(* interceptor/scope.rs: build_child on every kind of activity, the Stage  *)
(* arm included, and children_count.                                       *)
(***************************************************************************)
RECURSIVE StageJobName(_, _, _)
\* the name of the job of a stage: the parts of the statement evaluated and
\* stringified in order, the first error ends the collect, then joined
StageJobName(parts, i, variables) ==
    IF i > Len(parts) THEN Ok("")
    ELSE LET text == Stringify(Evaluate(parts[i], variables))
         IN IF text.tag # "Ok" THEN text
            ELSE LET rest == StageJobName(parts, i + 1, variables)
                 IN IF rest.tag # "Ok" THEN rest ELSE Ok(text.val.v \o rest.val)

\* the Job activity the Stage arm makes of the definition it found, of
\* whatever kind
JobActivity(name, job_definition) ==
    ExecutionActivity("Job", name, job_definition.directives, job_definition.body, NoStmt)

RECURSIVE StageJobs(_, _, _)
\* the loop of the Stage arm over the statements of the stage, from i on
StageJobs(commands, i, variables) ==
    IF i > Len(commands) THEN Ok(<<>>)
    ELSE IF commands[i].t # "Command"
    THEN Err(LoomError(<<>>, "Tipo di statement non previsto per uno stage!"))
    ELSE LET name == StageJobName(commands[i].parts, 1, variables)
         IN IF name.tag # "Ok" THEN name
            ELSE IF ~HasDefinition(name.val) THEN Err(LoomError(<<>>, "Cannot find Job"))
            ELSE LET rest == StageJobs(commands, i + 1, variables)
                 IN IF rest.tag # "Ok" THEN rest
                    ELSE Ok(<<JobActivity(name.val, FindDefinition(name.val))>> \o rest.val)

\* ExecutionActivity::build_child
BuildChildOf(activity, variables) ==
    IF activity.tag = "Stage"
    THEN StageJobs(activity.blocks[1].statements, 1, variables)
    ELSE Ok(BuildChild(activity))

\* ExecutionActivity::children_count
ChildrenCount(activity) ==
    CASE activity.tag \in {"Block", "Stage"} -> Len(activity.blocks[1].statements)
      [] activity.tag \in {"Pipeline", "Job", "Definition"} -> Len(activity.blocks)
      [] OTHER -> 0

\* the statements a stage is given: commands whose text is the name of a
\* job, of a recipe, of nothing, and calls
StageStatements ==
    { CommandStmt(<<LitExpr("string", "nightly")>>, <<>>),
      CommandStmt(<<LitExpr("string", "night"), LitExpr("string", "ly")>>, <<>>),
      CommandStmt(<<VarExpr("greeting")>>, <<>>),
      CommandStmt(<<VarExpr("unset")>>, <<>>),
      CommandStmt(<<VarExpr("nowhere")>>, <<>>),
      CommandStmt(<<LitExpr("string", "nobody")>>, <<>>),
      CallStmt("nightly", <<>>),
      CallStmt("nobody", <<>>) }

StageSamples ==
    { BlockActivity("Stage", Block(statements, <<>>)) :
         statements \in {<<>>} \cup {<<a>> : a \in StageStatements}
                          \cup {<<a, b>> : a \in StageStatements, b \in StageStatements} }

\* the activities of the definitions of the registry, their children and
\* the children of those
DefinitionActivities ==
    LET top == {ActivityOf(FindDefinition(d)) : d \in DOMAIN Definitions}
        below(set) == UNION { {BuildChild(a)[i] : i \in 1..Len(BuildChild(a))} : a \in set }
    IN top \cup below(top) \cup below(below(top))

ActivitySamples == DefinitionActivities \cup StageSamples

InitChild ==
    /\ interceptors = <<>>
    /\ configs = EmptyMap
    /\ user_overrides = EmptyMap
    /\ d_interceptors = EmptyMap
    /\ chain_cache = EmptyMap
    /\ nexec = 0
    /\ handlers = EmptyMap
    /\ registered = <<>>
    /\ \E activity \in ActivitySamples, variables \in VariableSamples :
          last = [op |-> "activity", activity |-> activity, variables |-> variables]

\* build_child is called on the activity drawn
BuildChildStep ==
    /\ last.op = "activity"
    /\ last' = [op |-> "children", activity |-> last.activity, variables |-> last.variables,
                r |-> BuildChildOf(last.activity, last.variables)]
    /\ UNCHANGED <<interceptors, configs, user_overrides, d_interceptors, chain_cache,
                   nexec, handlers, registered>>

NextChild == BuildChildStep

SpecChild == InitChild /\ [][NextChild]_vars

BuiltChildren(tag) == last.op = "children" /\ last.activity.tag = tag

\* a Job activity made of the definition a call names
JobOfCall(stmt) == JobActivity(stmt.name, FindDefinition(stmt.name))

(***************************************************************************)
(* C34: build_child on a Stage returns one Job activity per contained Call *)
(* statement, obtained by resolving the called name to a definition, and   *)
(* fails if the stage contains any statement that is not a Call.           *)
(***************************************************************************)
C34_StageOfCalls ==
    BuiltChildren("Stage") =>
        LET commands == last.activity.blocks[1].statements
        IN IF \E i \in 1..Len(commands) : commands[i].t # "Call"
           THEN last.r.tag = "Err"
           ELSE IF \E i \in 1..Len(commands) : ~HasDefinition(commands[i].name)
           THEN last.r.tag = "Err"
           ELSE last.r = Ok([i \in 1..Len(commands) |-> JobOfCall(commands[i])])

\* a stage of one call of the job nightly is refused
C34_Witness ==
    /\ BuiltChildren("Stage")
    /\ last.activity.blocks[1].statements = <<CallStmt("nightly", <<>>)>>
    /\ last.r = Err(LoomError(<<>>, "Tipo di statement non previsto per uno stage!"))

\* a stage of one command whose text is nightly gives the job nightly
C34_WitnessCommand ==
    /\ BuiltChildren("Stage")
    /\ last.activity.blocks[1].statements =
          <<CommandStmt(<<LitExpr("string", "night"), LitExpr("string", "ly")>>, <<>>)>>
    /\ last.r = Ok(<<ActivityOf(FindDefinition("nightly"))>>)

(***************************************************************************)
(* C35: build_child returns no children for Command and Schedule, one      *)
(* Command per statement in statement order for Block, one Stage per stage *)
(* for Pipeline and one Block per body block in order for Job and          *)
(* Definition; whenever build_child succeeds, the number of children       *)
(* equals children_count of the node.                                      *)
(***************************************************************************)
C35_ChildrenByKind ==
    last.op = "children" =>
        LET activity == last.activity
            children == last.r.val
            each(tag) ==
                /\ last.r.tag = "Ok"
                /\ Len(children) = Len(activity.blocks)
                /\ \A i \in 1..Len(children) :
                      /\ children[i].tag = tag
                      /\ children[i].blocks = <<activity.blocks[i]>>
                      /\ children[i].directives = activity.blocks[i].directives
        IN /\ activity.tag \in {"Command", "Schedule"} => last.r = Ok(<<>>)
           /\ activity.tag = "Block" =>
                 /\ last.r.tag = "Ok"
                 /\ Len(children) = Len(activity.blocks[1].statements)
                 /\ \A i \in 1..Len(children) :
                       /\ children[i].tag = "Command"
                       /\ children[i].stmt = activity.blocks[1].statements[i]
           /\ activity.tag = "Pipeline" => each("Stage")
           /\ activity.tag \in {"Job", "Definition"} => each("Block")
           /\ last.r.tag = "Ok" => Len(children) = ChildrenCount(activity)

\* the block of release gave its three statements in order
C35_Witness ==
    /\ BuiltChildren("Block")
    /\ Len(last.r.val) = 3
    /\ last.r.val[1].stmt = CallStmt("hello", <<>>)
    /\ last.r.val[3].stmt.t = "Command"

\* the pipeline ci gave its stage
C35_WitnessPipeline ==
    /\ BuiltChildren("Pipeline")
    /\ Len(last.r.val) = 1
    /\ last.r.val[1].tag = "Stage"

\* a stage of two commands gave two jobs
C35_WitnessStage ==
    /\ BuiltChildren("Stage")
    /\ last.r.tag = "Ok"
    /\ Len(last.r.val) = 2

(***************************************************************************)
(* execute() with arguments that do and do not match the signature.        *)
(***************************************************************************)
\* the parameters the registry marks required (ParameterDefinition.required),
\* a flag neither args_into_variable nor the definition executor reads
RequiredParameters(def_name) ==
    CASE def_name = "deploy" -> {"env"}
      [] def_name = "tagged" -> {"env"}
      [] OTHER -> {}

BindDefs == {"hello", "deploy", "tagged", "chained", "hollow"}

BindArgs ==
    { <<>>,
      <<InputArg("env", LitExpr("string", "prod"))>>,
      <<InputArg("nope", LitExpr("string", "prod"))>>,
      <<InputArg("color", LitExpr("string", "red"))>> }

NextBind ==
    \/ \E o \in ParseDirectives :
          RegisterDirective(o) /\ UNCHANGED <<nexec, handlers, registered>>
    \/ \E def_name \in BindDefs, input_args \in BindArgs :
          /\ nexec < MaxExec
          /\ Execute(def_name, input_args, EmptyMap)
          /\ nexec' = nexec + 1
          /\ UNCHANGED <<handlers, registered>>

SpecBind == Init /\ [][NextBind]_vars

\* the invocations of the interceptors of the body of the definition
\* executed: those of the lists below the top one
BodyInvocations ==
    { i \in 1..Len(last.log) : last.log[i].ev = "invoke" /\ last.log[i].list # <<>> }

ParameterNames(def_name) ==
    {FindDefinition(def_name).parameters[i].name :
        i \in 1..Len(FindDefinition(def_name).parameters)}

ArgumentNames(input_args) == {input_args[i].name : i \in 1..Len(input_args)}

(***************************************************************************)
(* C36: when the body of a definition starts executing every required      *)
(* parameter of its signature is bound to a variable of the execution      *)
(* context; an execute() that supplies fewer arguments than the required   *)
(* parameters, or an argument whose name matches no parameter, is rejected *)
(* with an error instead of being run.                                     *)
(***************************************************************************)
C36_RequiredBound ==
    (RanExecute /\ HasDefinition(last.def)) =>
        /\ \A i \in BodyInvocations :
              RequiredParameters(last.def) \subseteq DOMAIN last.log[i].variables
        /\ (\/ Len(last.args) < Cardinality(RequiredParameters(last.def))
            \/ ~(ArgumentNames(last.args) \subseteq ParameterNames(last.def))) =>
              /\ last.r.tag = "Err"
              /\ BodyInvocations = {}

\* deploy was executed without arguments: its body ran while env, which is
\* required, was no variable
C36_Witness ==
    /\ RanExecute
    /\ last.def = "deploy"
    /\ last.args = <<>>
    /\ BodyInvocations # {}
    /\ \E i \in BodyInvocations : "env" \notin DOMAIN last.log[i].variables

\* hello was executed with an argument it has no parameter for, and ran
C36_WitnessUnknownName ==
    /\ RanExecute
    /\ last.def = "hello"
    /\ last.args = <<InputArg("nope", LitExpr("string", "prod"))>>
    /\ last.r.tag = "Ok"

(***************************************************************************)
(* A sequential executor over commands whose processes exit with a code,   *)
(* end without one or cannot be spawned.                                   *)
(***************************************************************************)
ProcessOutcomes == {Exited(0), Exited(1), Signalled, NotSpawned}

ProcessTexts == {<<"make">>, <<"test">>}

ProcessCommands ==
    { SequenceChainExecutor(<<CommandExecutor(<<LitExpr("string", text[1])>>)>>) :
         text \in ProcessTexts }

InitProcess ==
    /\ interceptors = <<>>
    /\ configs = EmptyMap
    /\ user_overrides = EmptyMap
    /\ d_interceptors = EmptyMap
    /\ chain_cache = EmptyMap
    /\ nexec = 0
    /\ handlers = EmptyMap
    /\ registered = <<>>
    /\ \E children \in SeqsUpTo(ProcessCommands, MaxChildren),
          process \in [ProcessTexts -> ProcessOutcomes] :
          last = [op |-> "commands", children |-> children, process |-> process]

\* SequentialExecutorInterceptor(children, "Block").intercept(context, ..)
\* over command executors
RunCommands ==
    /\ last.op = "commands"
    /\ LET st == RunState(ModuleVariables, "Sequential",
                          [lock |-> "Hang", process |-> last.process])
           o == ExecutorIntercept(SequentialExecutor(last.children, "Block"), <<>>, st)
       IN last' = [op |-> "ran_commands", children |-> last.children,
                   process |-> last.process, r |-> o.r, log |-> o.st.log]
    /\ UNCHANGED <<interceptors, configs, user_overrides, d_interceptors, chain_cache, nexec,
                   handlers, registered>>

NextProcess == RunCommands

SpecProcess == InitProcess /\ [][NextProcess]_vars

RanCommands == last.op = "ran_commands"

\* the text of the command of child k
TextOf(children, k) == <<children[k].children[1].parts[1].v>>

\* what the command executor of child k returned: the results of the
\* return events of the list of that child
ReturnedBy(log, k) ==
    {log[q].prev : q \in {p \in 1..Len(log) : IsReturn(log[p], <<k>>)}}

(***************************************************************************)
(* C37: the command executor returns a success result, not an error, when  *)
(* the spawned process exits with a non-zero code or cannot be spawned at  *)
(* all (exit_code absent, system_error in the metadata); consequently a    *)
(* sequential executor goes on to run the commands that follow a failed    *)
(* command.                                                                *)
(***************************************************************************)
C37_FailedCommandSucceeds ==
    RanCommands =>
        LET n == Len(last.children)
        IN /\ InvokedChildren(last.log, 1) = [k \in 1..n |-> k]
           /\ \A k \in 1..n :
                 LET process == last.process[TextOf(last.children, k)]
                 IN \A r \in ReturnedBy(last.log, k) :
                       /\ r.tag = "Ok"
                       /\ r.val.command = TextOf(last.children, k)
                       /\ r.val.exit_code = process.code
                       /\ r.val.system_error = ~process.spawned
                       /\ process = NotSpawned =>
                             r.val.exit_code = <<>> /\ r.val.system_error
           /\ \A k \in 1..n : ReturnedBy(last.log, k) # {}
           /\ n >= 1 => last.r.tag = "Ok"

\* make exited with code 1 and test, which follows it, was run
C37_Witness ==
    /\ RanCommands
    /\ Len(last.children) = 2
    /\ TextOf(last.children, 1) = <<"make">>
    /\ TextOf(last.children, 2) = <<"test">>
    /\ last.process[<<"make">>] = Exited(1)
    /\ InvokesOf(last.log, <<>>, 2) # {}

\* make could not be spawned and test, which follows it, was run
C37_WitnessNotSpawned ==
    /\ RanCommands
    /\ Len(last.children) = 2
    /\ TextOf(last.children, 1) = <<"make">>
    /\ last.process[<<"make">>] = NotSpawned
    /\ InvokesOf(last.log, <<>>, 2) # {}
    /\ last.r.tag = "Ok"

(***************************************************************************)
(* C38: the result a sequential executor returns is always a result one of *)
(* its own children produced during this invocation; with no children it   *)
(* returns an error and never a previous result an earlier sibling left in *)
(* the context.                                                            *)
(***************************************************************************)
C38_OwnResult ==
    RanSequential =>
        /\ last.r.tag = "Ok" =>
              \E q \in 1..Len(last.log) :
                 /\ IsReturn(last.log[q], <<>>)
                 /\ last.log[q].prev = last.r
        /\ Len(last.children) = 0 => last.r.tag = "Err"

\* a sequential executor without children ran while the context held the
\* result of an earlier sibling, and returned that result
C38_Witness ==
    /\ RanSequential
    /\ last.children = <<>>
    /\ last.previous = Ok(ExecutionResult(<<0>>, <<"earlier">>))
    /\ last.r = last.previous
    /\ last.log = <<>>

\* without children and without a previous result the answer is an error
C38_WitnessNone ==
    /\ RanSequential
    /\ last.children = <<>>
    /\ last.previous = NoResult
    /\ last.r.tag = "Err"

\* execute() of chained, whose block runs the command first and then calls
\* hollow, a recipe with an empty block: the sequential executor of that
\* block answered with the result of first, and chained ended with it
C38_WitnessExecute ==
    /\ RanExecute
    /\ last.def = "chained"
    /\ last.r.tag = "Ok"
    /\ last.r.val.command = <<"first">>

(***************************************************************************)
(* The bindings of a called definition and the interceptors that run after *)
(* it: release calls deploy with the argument prod for its parameter env,  *)
(* then runs the command notify.                                           *)
(***************************************************************************)
\* the positions of the log where a definition executor asked for the write
\* lock to insert its bindings
BindingWrites(log) == {q \in 1..Len(log) : log[q].ev = "write"}

\* the invocations of the log after position q
InvokedAfter(log, q) == {p \in (q + 1)..Len(log) : log[p].ev = "invoke"}

Locked ==
    GlobalInterceptor("locked", GlobalInterceptorConfig(TRUE, 1500, <<>>, FALSE), TRUE, "next")

ManagerGlobals == {Guard, Stray, Locked}

ManagerNames == {"guard", "locked", "ghost"}

ManagerConfigs ==
    { GlobalInterceptorConfig(FALSE, 6000, <<>>, TRUE),
      GlobalInterceptorConfig(TRUE, 4000, <<>>, TRUE),
      GlobalInterceptorConfig(TRUE, 6000, <<>>, FALSE) }

ManagerDirectives ==
    { DirectiveInterceptor("log", 700, TRUE, "next"),
      DirectiveInterceptor("if", 100, FALSE, "ok"),
      DirectiveInterceptor("log", 6000, TRUE, "next") }

NextManagers ==
    \/ \E o \in ManagerGlobals, k \in 1..2 : RegisterGlobal(o, k) /\ UNCHANGED <<nexec, handlers>>
    \/ \E o \in ManagerDirectives :
          RegisterDirective(o) /\ UNCHANGED <<nexec, handlers, registered>>
    \/ \E name \in ManagerNames, config \in ManagerConfigs :
          ConfigureGlobal(name, config) /\ UNCHANGED <<nexec, handlers, registered>>
    \/ \E name \in ManagerNames, enabled \in BOOLEAN :
          OverrideGlobal(name, enabled) /\ UNCHANGED <<nexec, handlers, registered>>

SpecManagers == Init /\ [][NextManagers]_vars

\* the call that was just made is one the managers, as they were before it,
\* must refuse: the priority is outside the bands of its manager, the name
\* is not that of a registered interceptor, or the configuration of the
\* interceptor does not allow an override
MustRefuse ==
    \/ /\ last'.op = "register_global"
       /\ ~ValidateGlobalPriority(last'.priority)
    \/ /\ last'.op = "configure_global"
       /\ (last'.name \notin Names(interceptors) \/ ~ValidateGlobalPriority(last'.priority))
    \/ /\ last'.op = "override_global"
       /\ (last'.name \notin DOMAIN configs \/ ~configs[last'.name].user_overridable)
    \/ /\ last'.op = "register_directive"
       /\ ~ValidateDirectivePriority(last'.priority)

(***************************************************************************)
(* C40: a rejected register, configure or set_user_override call on the    *)
(* global manager (priority outside the global bands, unknown name,        *)
(* interceptor not overridable) and a rejected register on the directive   *)
(* manager leave the interceptors, configurations and overrides of the     *)
(* managers exactly as they were before the call.                          *)
(***************************************************************************)
C40_RejectedLeavesManagers ==
    [][MustRefuse =>
          /\ ~last'.ok
          /\ interceptors' = interceptors
          /\ configs' = configs
          /\ user_overrides' = user_overrides
          /\ d_interceptors' = d_interceptors]_vars

\* a configuration with a priority outside the bands was refused for guard
\* while the managers held interceptors, configurations and an override
C40_Witness ==
    /\ last.op = "configure_global"
    /\ ~last.ok
    /\ last.name = "guard"
    /\ "guard" \in Names(interceptors)
    /\ "guard" \in DOMAIN user_overrides
    /\ d_interceptors # EmptyMap

\* an override was refused for an interceptor whose configuration does not
\* allow it
C40_WitnessNotOverridable ==
    /\ last.op = "override_global"
    /\ ~last.ok
    /\ last.name \in DOMAIN configs
    /\ ~configs[last.name].user_overridable

\* a name nobody registered was refused
C40_WitnessUnknownName ==
    /\ last.op \in {"configure_global", "override_global"}
    /\ ~last.ok
    /\ last.name = "ghost"
    /\ interceptors # <<>>

\* a registration with a priority outside the bands was refused, by the
\* global manager and by the directive manager, for a name already there
C40_WitnessRegister ==
    /\ last.op = "register_directive"
    /\ ~last.ok
    /\ last.name = "log"
    /\ "log" \in DOMAIN d_interceptors

C40_WitnessRegisterGlobal ==
    /\ last.op = "register_global"
    /\ ~last.ok
    /\ interceptors # <<>>

====
